---- MODULE Spec2Model ----
(***************************************************************************)
(* Model of the attestation bot's assessment session engine:               *)
(*   bot/services/state.py            Session, Session.advance             *)
(*   bot/services/question_engine.py  QuestionEngine.evaluate              *)
(*   bot/handlers/testing.py          the aiogram handlers of the          *)
(*                                    "answering" state                    *)
(* The FSM storage is aiogram's MemoryStorage (bot/main.py:30): get_data   *)
(* hands out a shallow copy of the data dict, so every handler works on    *)
(* the one Session object of the user and its in-place mutations persist   *)
(* whether or not update_data is reached.                                  *)
(***************************************************************************)
EXTENDS Integers, Sequences, FiniteSets, TLC

(* ------------------------------ bounds --------------------------------- *)
\* largest number of questions in the two blocks of a session together
MaxQuestions == 3
\* how many abnormal events one session may see: a failing write of the
\* result store, or a callback of a keyboard the bot never showed for the
\* live question (a single-choice pick on a matching question, ...)
MaxFaults == 1
\* longest block of a Session whose advance() is driven on its own
MaxBlockLen == 5
\* the Evaluator's inputs: choices per question, ids per submitted list
MaxChoices == 3
MaxListLen == 2

(* ------------------------------ values --------------------------------- *)
Users == {"u1", "u2"}

\* Optional[int] None of Session.review_index
None == -1
\* Optional[str] None of Session.matching_focus
NoFocus == "None"

single_choice == "single_choice"
multi_choice == "multi_choice"
matching == "matching"
QuestionType == {single_choice, multi_choice, matching}

\* ids that callbacks carry: choice ids, left items, right items
ChoiceIds == {"c1", "c2"}
LeftIds == {"1", "2"}
RightIds == {"A", "B"}

Range(f) == {f[k] : k \in DOMAIN f}

\* the empty dict
EmptyMap == [k \in {} |-> "A"]

\* the characters of an id, as Python iterates a str
StrChars(id) ==
    CASE id = "c1" -> <<"c", "1">>
      [] id = "c2" -> <<"c", "2">>
      [] id = "c3" -> <<"c", "3">>
      [] id = "c4" -> <<"c", "4">>
      [] id = "c5" -> <<"c", "5">>
      [] id = "1A" -> <<"1", "A">>
      [] id = "2B" -> <<"2", "B">>
      [] id = "" -> <<>>
      [] OTHER -> <<id>>

(* ----------------------------- questions ------------------------------- *)
Choice(id, is_correct) == [id |-> id, is_correct |-> is_correct]

\* a Choice with the text the bank gives it
TextChoice(id, text, is_correct) == [id |-> id, text |-> text, is_correct |-> is_correct]

\* Question ids are "b<block>-<8 hex digits of a uuid4>": distinct tokens.
MakeId(block_number, idx) == block_number * 10 + idx

\* an id no question of any session carries
ForeignId == 0

Question(id, block, type) ==
    [id |-> id,
     block |-> block,
     type |-> type,
     choices |->
        IF type = single_choice
        THEN <<Choice("c1", TRUE), Choice("c2", FALSE)>>
        ELSE IF type = multi_choice
        THEN <<Choice("c1", TRUE), Choice("c2", TRUE)>>
        ELSE <<>>,
     matching_left |-> IF type = matching THEN <<"1", "2">> ELSE <<>>,
     matching_right |-> IF type = matching THEN <<"A", "B">> ELSE <<>>,
     correct_mapping |->
        IF type = matching THEN [k \in LeftIds |-> IF k = "1" THEN "A" ELSE "B"]
        ELSE EmptyMap]

\* The question types of the bank, by block and position: every type is
\* live at some position of some session, each after answered questions.
TypeAt(block_number, i) ==
    IF block_number = 1
    THEN <<single_choice, matching, multi_choice>>[((i - 1) % 3) + 1]
    ELSE IF i = 1 THEN multi_choice ELSE single_choice

\* The materialized Question objects. A Question is never modified once it is
\* built; blocks and results hold references to it, here its id.
QuestionById(id) == Question(id, id \div 10, TypeAt(id \div 10, (id % 10) + 1))

(* --------------------------- answer payloads --------------------------- *)
\* user_answer is duck-typed: a bare id, a list of ids, a dict, or None
IdAnswer(id) == [kind |-> "id", id |-> id]
ListAnswer(ids) == [kind |-> "list", ids |-> ids]
MapAnswer(m) == [kind |-> "map", map |-> m]
NoAnswer == [kind |-> "none"]

\* set(user_answer or [])
AsSet(user_answer) ==
    CASE user_answer.kind = "none" -> {}
      [] user_answer.kind = "id" -> Range(StrChars(user_answer.id))
      [] user_answer.kind = "list" -> Range(user_answer.ids)
      [] user_answer.kind = "map" -> DOMAIN user_answer.map

\* dict(user_answer or {}) raises ValueError on an element that is not a pair
DictRaises(user_answer) ==
    CASE user_answer.kind = "none" -> FALSE
      [] user_answer.kind = "id" -> user_answer.id # ""
      [] user_answer.kind = "list" ->
            \E i \in DOMAIN user_answer.ids : Len(StrChars(user_answer.ids[i])) # 2
      [] user_answer.kind = "map" -> FALSE

\* dict(user_answer or {}) where it does not raise; a later pair overrides
AsDict(user_answer) ==
    CASE user_answer.kind = "map" -> user_answer.map
      [] user_answer.kind = "list" ->
            LET ids == user_answer.ids
                keys == {StrChars(ids[i])[1] : i \in DOMAIN ids}
                lastAt(k) == CHOOSE i \in DOMAIN ids :
                                /\ StrChars(ids[i])[1] = k
                                /\ \A j \in DOMAIN ids :
                                      StrChars(ids[j])[1] = k => j <= i
            IN [k \in keys |-> StrChars(ids[lastAt(k)])[2]]
      [] OTHER -> EmptyMap

\* `user_answer in correct_ids` raises TypeError on an unhashable list or dict
InSetRaises(user_answer) == user_answer.kind \in {"list", "map"}

CorrectIds(question) ==
    {question.choices[i].id : i \in {j \in DOMAIN question.choices :
                                        question.choices[j].is_correct}}

EvaluateRaises(question, user_answer) ==
    CASE question.type = single_choice -> InSetRaises(user_answer)
      [] question.type = multi_choice -> FALSE
      [] question.type = matching -> DictRaises(user_answer)
      [] OTHER -> FALSE

\* the single-choice rule comparing with the first choice, whatever its flag
EvaluateIsCorrect_first_choice(question, user_answer) ==
    CASE question.type = single_choice ->
            /\ user_answer.kind = "id"
            /\ question.choices # <<>>
            /\ user_answer.id = question.choices[1].id
      [] question.type = multi_choice ->
            /\ AsSet(user_answer) = CorrectIds(question)
            /\ AsSet(user_answer) # {}
      [] question.type = matching ->
            AsDict(user_answer) = question.correct_mapping
      [] OTHER -> FALSE

\* the multi-choice rule without the test for an empty submission
EvaluateIsCorrect_empty_allowed(question, user_answer) ==
    CASE question.type = single_choice ->
            /\ user_answer.kind = "id"
            /\ user_answer.id \in CorrectIds(question)
      [] question.type = multi_choice ->
            AsSet(user_answer) = CorrectIds(question)
      [] question.type = matching ->
            AsDict(user_answer) = question.correct_mapping
      [] OTHER -> FALSE

\* the matching rule that accepts any mapping whose pairs are all correct
EvaluateIsCorrect_partial_mapping(question, user_answer) ==
    CASE question.type = single_choice ->
            /\ user_answer.kind = "id"
            /\ user_answer.id \in CorrectIds(question)
      [] question.type = multi_choice ->
            /\ AsSet(user_answer) = CorrectIds(question)
            /\ AsSet(user_answer) # {}
      [] question.type = matching ->
            \A k \in DOMAIN AsDict(user_answer) :
                /\ k \in DOMAIN question.correct_mapping
                /\ AsDict(user_answer)[k] = question.correct_mapping[k]
      [] OTHER -> FALSE

\* the multi-choice rule that accepts any part of the correct set
EvaluateIsCorrect_subset(question, user_answer) ==
    CASE question.type = single_choice ->
            /\ user_answer.kind = "id"
            /\ user_answer.id \in CorrectIds(question)
      [] question.type = multi_choice ->
            /\ AsSet(user_answer) \subseteq CorrectIds(question)
            /\ AsSet(user_answer) # {}
      [] question.type = matching ->
            AsDict(user_answer) = question.correct_mapping
      [] OTHER -> FALSE

EvaluateIsCorrect(question, user_answer) ==
    CASE question.type = single_choice ->
            /\ user_answer.kind = "id"
            /\ user_answer.id \in CorrectIds(question)
      [] question.type = multi_choice ->
            /\ AsSet(user_answer) = CorrectIds(question)
            /\ AsSet(user_answer) # {}
      [] question.type = matching ->
            AsDict(user_answer) = question.correct_mapping
      [] OTHER -> FALSE

\* QuestionEngine.evaluate: a QuestionResult, or the exception it raises.
\* The result refers to its (immutable) Question, here by the question's id.
evaluate(question, user_answer) ==
    IF EvaluateRaises(question, user_answer)
    THEN [raised |-> TRUE]
    ELSE [raised |-> FALSE,
          result |-> [question |-> question.id,
                      is_correct |-> EvaluateIsCorrect(question, user_answer),
                      user_answer |-> user_answer]]

(* ------------------------------ Session -------------------------------- *)
\* Session(profile, block_one, block_two) with the dataclass defaults
NewSession(block_one, block_two) ==
    [block_one |-> block_one,
     block_two |-> block_two,
     current_block |-> 1,
     current_index |-> 0,
     answers |-> <<>>,
     multi_choice_state |-> <<>>,
     matching_state |-> <<>>,
     matching_focus |-> <<>>,
     review_index |-> None]

\* what the FSM storage holds for a user who has no session
EmptySession == NewSession(<<>>, <<>>)

total_questions(s) == Len(s.block_one) + Len(s.block_two)

is_completed(s) == s.current_block = 2 /\ s.current_index >= Len(s.block_two)

current_list(s) == IF s.current_block = 1 THEN s.block_one ELSE s.block_two

\* current_list()[current_index] raises IndexError past the end of the list
CurrentQuestionRaises(s) == s.current_index >= Len(current_list(s))

current_question(s) == QuestionById(current_list(s)[s.current_index + 1])

\* advance() that announces the change of block as an ordinary "next"
advance_silent_switch(s) ==
    LET idx == s.current_index + 1
        moved == [s EXCEPT !.current_index = idx]
    IN  IF s.current_block = 1 /\ idx >= Len(s.block_one)
        THEN IF s.block_two # <<>>
             THEN [s |-> [s EXCEPT !.current_block = 2, !.current_index = 0],
                   status |-> "next"]
             ELSE [s |-> moved, status |-> "done"]
        ELSE IF s.current_block = 2 /\ idx >= Len(s.block_two)
             THEN [s |-> moved, status |-> "done"]
             ELSE [s |-> moved, status |-> "next"]

\* advance() that wraps current_index to 0 when the last block is finished
advance_wraps_at_end(s) ==
    LET idx == s.current_index + 1
        moved == [s EXCEPT !.current_index = idx]
        wrapped == [s EXCEPT !.current_index = 0]
    IN  IF s.current_block = 1 /\ idx >= Len(s.block_one)
        THEN IF s.block_two # <<>>
             THEN [s |-> [s EXCEPT !.current_block = 2, !.current_index = 0],
                   status |-> "switch"]
             ELSE [s |-> wrapped, status |-> "done"]
        ELSE IF s.current_block = 2 /\ idx >= Len(s.block_two)
             THEN [s |-> wrapped, status |-> "done"]
             ELSE [s |-> moved, status |-> "next"]

\* advance() that switches to block two without looking whether it is empty
advance_always_switches(s) ==
    LET idx == s.current_index + 1
        moved == [s EXCEPT !.current_index = idx]
    IN  IF s.current_block = 1 /\ idx >= Len(s.block_one)
        THEN [s |-> [s EXCEPT !.current_block = 2, !.current_index = 0],
              status |-> "switch"]
        ELSE IF s.current_block = 2 /\ idx >= Len(s.block_two)
             THEN [s |-> moved, status |-> "done"]
             ELSE [s |-> moved, status |-> "next"]

\* Session.advance: the session after the call and the status it returns
advance(s) ==
    LET idx == s.current_index + 1
        moved == [s EXCEPT !.current_index = idx]
    IN  IF s.current_block = 1 /\ idx >= Len(s.block_one)
        THEN IF s.block_two # <<>>
             THEN [s |-> [s EXCEPT !.current_block = 2, !.current_index = 0],
                   status |-> "switch"]
             ELSE [s |-> moved, status |-> "done"]
        ELSE IF s.current_block = 2 /\ idx >= Len(s.block_two)
             THEN [s |-> moved, status |-> "done"]
             ELSE [s |-> moved, status |-> "next"]

(* ---------------------------- dict helpers ----------------------------- *)
\* d.setdefault(key, default), as the dict it leaves behind
SetDefault(d, key, default) ==
    [k \in DOMAIN d \cup {key} |-> IF k \in DOMAIN d THEN d[k] ELSE default]

\* d[key] = value
Put(d, key, value) ==
    [k \in DOMAIN d \cup {key} |-> IF k = key THEN value ELSE d[k]]

\* d.pop(key, None), as the dict it leaves behind
Pop(d, key) == [k \in DOMAIN d \ {key} |-> d[k]]

\* the lists list(selected) can produce: a set iterates in an unspecified order
Orders(S) ==
    {order \in [1..Cardinality(S) -> S] : Range(order) = S}

(* ------------------------- handler building blocks --------------------- *)
\* What one handler run leaves behind: the Session object, whether
\* state.clear() ran, the records appended to the result store, the statuses
\* advance() returned, the answers build_summary was given, and how the run
\* ended.
Outcome(s, outcome) ==
    [session |-> s, cleared |-> FALSE, logged |-> <<>>, status |-> <<>>,
     summarized |-> <<>>, outcome |-> outcome, returned |-> FALSE]

\* resolve_display_question: the session it leaves, and whether
\* current_question() raised
resolve_display_question(s) ==
    IF s.review_index # None /\ 0 <= s.review_index /\ s.review_index < Len(s.answers)
    THEN [s |-> s, raised |-> FALSE]
    ELSE [s |-> [s EXCEPT !.review_index = None],
          raised |-> CurrentQuestionRaises(s)]

\* a render that goes back to the live question whenever a draft was edited
render_question_message_leaving_review(s, outcome) ==
    IF outcome \in {"prev", "next_shown", "back_to_live"}
    THEN Outcome(resolve_display_question(s).s,
                 IF resolve_display_question(s).raised THEN "raised" ELSE outcome)
    ELSE Outcome([s EXCEPT !.review_index = None],
                 IF CurrentQuestionRaises(s) THEN "raised" ELSE outcome)

\* render_question_message, then the handler's closing callback.answer
render_question_message(s, outcome) ==
    LET shown == resolve_display_question(s)
    IN  Outcome(shown.s, IF shown.raised THEN "raised" ELSE outcome)

\* finish_session that reports and leaves the FSM as it is
finish_session_keeping_state(s) ==
    [Outcome([s EXCEPT !.review_index = None], "done") EXCEPT
        !.summarized = s.answers]

\* finish_session: leaves review, build_summary(session), send_summary,
\* state.clear()
finish_session(s) ==
    [Outcome([s EXCEPT !.review_index = None], "done") EXCEPT
        !.summarized = s.answers,
        !.cleared = TRUE]

\* process_final_step
process_final_step(s, advance_status) ==
    IF advance_status = "done"
    THEN finish_session(s)
    ELSE render_question_message(s, advance_status)

\* finalize_answer without the call of advance()
finalize_answer_not_advancing(s, question, user_answer, sink_ok) ==
    LET ev == evaluate(question, user_answer)
    IN  IF ev.raised
        THEN Outcome(s, "raised")
        ELSE LET appended == [s EXCEPT !.answers = Append(@, ev.result)]
                 final == process_final_step(appended, "next")
             IN  IF ~sink_ok
                 THEN Outcome(appended, "sink_failed")
                 ELSE [final EXCEPT !.logged = <<ev.result>>,
                                    !.returned = final.outcome # "raised"]

\* finalize_answer that keeps only the latest result
finalize_answer_overwriting(s, question, user_answer, sink_ok) ==
    LET ev == evaluate(question, user_answer)
    IN  IF ev.raised
        THEN Outcome(s, "raised")
        ELSE LET appended == [s EXCEPT !.answers = <<ev.result>>]
                 adv == advance(appended)
                 final == process_final_step(adv.s, adv.status)
             IN  IF ~sink_ok
                 THEN Outcome(appended, "sink_failed")
                 ELSE [final EXCEPT !.logged = <<ev.result>>,
                                    !.status = <<adv.status>>,
                                    !.returned = final.outcome # "raised"]

\* finalize_answer; sink_ok says whether the result store's append succeeds
finalize_answer(s, question, user_answer, sink_ok) ==
    LET ev == evaluate(question, user_answer)
    IN  IF ev.raised
        THEN Outcome(s, "raised")
        ELSE LET appended == [s EXCEPT !.answers = Append(@, ev.result)]
                 adv == advance(appended)
                 final == process_final_step(adv.s, adv.status)
             IN  IF ~sink_ok
                 THEN Outcome(appended, "sink_failed")
                 ELSE [final EXCEPT !.logged = <<ev.result>>,
                                    !.status = <<adv.status>>,
                                    !.returned = final.outcome # "raised"]

(* ------------------------------ handlers ------------------------------- *)
\* ensure_active_question that lets every question id through
ensure_active_question_unchecked(s, question_id) ==
    IF CurrentQuestionRaises(s) THEN "IndexError" ELSE "ok"

\* ensure_active_question: the ValueError it raises for a question id that is
\* not the live question's, or the IndexError of current_question()
ensure_active_question(s, question_id) ==
    IF CurrentQuestionRaises(s) THEN "IndexError"
    ELSE IF current_question(s).id # question_id THEN "ValueError"
    ELSE "ok"

\* handle_single_choice on callback data sc|question_id|choice_id
single_choice_run(s, question_id, choice_id, sink_ok) ==
    IF ensure_active_question(s, question_id) = "IndexError"
    THEN Outcome(s, "raised")
    ELSE IF ensure_active_question(s, question_id) = "ValueError"
    THEN Outcome(s, "stale")
    ELSE finalize_answer(s, current_question(s), IdAnswer(choice_id), sink_ok)

\* handle_multi_choice that submits whatever is selected, nothing included
multi_choice_run_accepting_empty(s, action, question_id, choice_id, order, sink_ok) ==
    IF ensure_active_question(s, question_id) = "IndexError"
    THEN Outcome(s, "raised")
    ELSE IF ensure_active_question(s, question_id) = "ValueError"
    THEN Outcome(s, "stale")
    ELSE
    LET question == current_question(s)
        touched == [s EXCEPT !.multi_choice_state = SetDefault(@, question_id, {})]
        selected == touched.multi_choice_state[question_id]
    IN  CASE action = "toggle" ->
                render_question_message(
                    [touched EXCEPT !.multi_choice_state[question_id] =
                        IF choice_id \in selected
                        THEN selected \ {choice_id}
                        ELSE selected \cup {choice_id}],
                    "toggled")
          [] action = "reset" ->
                render_question_message(
                    [touched EXCEPT !.multi_choice_state[question_id] = {}],
                    "mc_reset")
          [] action = "submit" ->
                LET final == finalize_answer(touched, question,
                                             ListAnswer(order), sink_ok)
                IN  IF final.returned
                    THEN [final EXCEPT !.session.multi_choice_state =
                                           Pop(@, question_id)]
                    ELSE final
          [] OTHER -> Outcome(touched, "ignored")

\* handle_multi_choice on callback data mc|action|question_id[|choice_id];
\* order is the list that list(selected) yields
multi_choice_run(s, action, question_id, choice_id, order, sink_ok) ==
    IF ensure_active_question(s, question_id) = "IndexError"
    THEN Outcome(s, "raised")
    ELSE IF ensure_active_question(s, question_id) = "ValueError"
    THEN Outcome(s, "stale")
    ELSE
    LET question == current_question(s)
        touched == [s EXCEPT !.multi_choice_state = SetDefault(@, question_id, {})]
        selected == touched.multi_choice_state[question_id]
    IN  CASE action = "toggle" ->
                render_question_message(
                    [touched EXCEPT !.multi_choice_state[question_id] =
                        IF choice_id \in selected
                        THEN selected \ {choice_id}
                        ELSE selected \cup {choice_id}],
                    "toggled")
          [] action = "reset" ->
                render_question_message(
                    [touched EXCEPT !.multi_choice_state[question_id] = {}],
                    "mc_reset")
          [] action = "submit" ->
                IF selected = {}
                THEN Outcome(touched, "empty")
                ELSE LET final == finalize_answer(touched, question,
                                                  ListAnswer(order), sink_ok)
                     IN  IF final.returned
                         THEN [final EXCEPT !.session.multi_choice_state =
                                                Pop(@, question_id)]
                         ELSE final
          [] OTHER -> Outcome(touched, "ignored")

\* the assign that does not look for the right item elsewhere
assign_right_keeping(mapping, left, right) == Put(mapping, left, right)

\* the assign that starts the mapping afresh
assign_right_alone(mapping, left, right) == Put(<<>>, left, right)

\* handle_matching, assign: the right item is taken away from any left item
\* that holds it, then given to the focused left item
assign_right(mapping, left, right) ==
    LET kept == {k \in DOMAIN mapping : mapping[k] # right}
        evicted == [k \in kept |-> mapping[k]]
    IN  Put(evicted, left, right)

\* the submit test that asks for some pair only
mapping_is_complete_nonempty(mapping, question) == DOMAIN mapping # {}

\* handle_matching, submit: len(mapping) == len(question.matching_left)
mapping_is_complete(mapping, question) ==
    Cardinality(DOMAIN mapping) = Len(question.matching_left)

\* handle_matching whose assign falls back on the first left item when
\* none is in focus
matching_run_assign_unfocused(s, action, question_id, item_id, sink_ok) ==
    IF ensure_active_question(s, question_id) = "IndexError"
    THEN Outcome(s, "raised")
    ELSE IF ensure_active_question(s, question_id) = "ValueError"
    THEN Outcome(s, "stale")
    ELSE
    LET question == current_question(s)
        touched == [s EXCEPT !.matching_state = SetDefault(@, question_id, <<>>),
                             !.matching_focus = SetDefault(@, question_id, NoFocus)]
        mapping == touched.matching_state[question_id]
        focus == touched.matching_focus[question_id]
        left == IF focus = NoFocus THEN "1" ELSE focus
    IN  CASE action = "select" ->
                render_question_message(
                    [touched EXCEPT !.matching_focus[question_id] = item_id],
                    "selected")
          [] action = "assign" ->
                render_question_message(
                    [touched EXCEPT
                        !.matching_state[question_id] =
                            assign_right(mapping, left, item_id),
                        !.matching_focus[question_id] = NoFocus],
                    "assigned")
          [] action = "reset" ->
                render_question_message(
                    [touched EXCEPT !.matching_state[question_id] = <<>>,
                                    !.matching_focus[question_id] = NoFocus],
                    "match_reset")
          [] action = "submit" ->
                IF ~mapping_is_complete(mapping, question)
                THEN Outcome(touched, "incomplete")
                ELSE LET final == finalize_answer(touched, question,
                                                  MapAnswer(mapping), sink_ok)
                     IN  IF final.returned
                         THEN [final EXCEPT
                                !.session.matching_state = Pop(@, question_id),
                                !.session.matching_focus = Pop(@, question_id)]
                         ELSE final
          [] OTHER -> Outcome(touched, "ignored")

\* handle_matching on callback data match|action|question_id[|item_id]
matching_run(s, action, question_id, item_id, sink_ok) ==
    IF ensure_active_question(s, question_id) = "IndexError"
    THEN Outcome(s, "raised")
    ELSE IF ensure_active_question(s, question_id) = "ValueError"
    THEN Outcome(s, "stale")
    ELSE
    LET question == current_question(s)
        touched == [s EXCEPT !.matching_state = SetDefault(@, question_id, <<>>),
                             !.matching_focus = SetDefault(@, question_id, NoFocus)]
        mapping == touched.matching_state[question_id]
        left == touched.matching_focus[question_id]
    IN  CASE action = "select" ->
                render_question_message(
                    [touched EXCEPT !.matching_focus[question_id] = item_id],
                    "selected")
          [] action = "assign" ->
                IF left = NoFocus
                THEN Outcome(touched, "no_focus")
                ELSE render_question_message(
                        [touched EXCEPT
                            !.matching_state[question_id] =
                                assign_right(mapping, left, item_id),
                            !.matching_focus[question_id] = NoFocus],
                        "assigned")
          [] action = "reset" ->
                render_question_message(
                    [touched EXCEPT !.matching_state[question_id] = <<>>,
                                    !.matching_focus[question_id] = NoFocus],
                    "match_reset")
          [] action = "submit" ->
                IF ~mapping_is_complete(mapping, question)
                THEN Outcome(touched, "incomplete")
                ELSE LET final == finalize_answer(touched, question,
                                                  MapAnswer(mapping), sink_ok)
                     IN  IF final.returned
                         THEN [final EXCEPT
                                !.session.matching_state = Pop(@, question_id),
                                !.session.matching_focus = Pop(@, question_id)]
                         ELSE final
          [] OTHER -> Outcome(touched, "ignored")

\* handle_navigation that moves on to the next question when review ends
navigation_run_advancing(s, direction) ==
    IF s.answers = <<>>
    THEN Outcome(s, "nothing_to_review")
    ELSE IF direction = "prev"
    THEN render_question_message(
            [s EXCEPT !.review_index =
                IF s.review_index = None THEN Len(s.answers) - 1
                ELSE IF s.review_index - 1 > 0 THEN s.review_index - 1 ELSE 0],
            "prev")
    ELSE IF s.review_index = None
    THEN Outcome(s, "at_live")
    ELSE IF s.review_index < Len(s.answers) - 1
    THEN render_question_message(
            [s EXCEPT !.review_index = s.review_index + 1], "next_shown")
    ELSE Outcome([advance(s).s EXCEPT !.review_index = None], "back_to_live")

\* handle_navigation whose previous enters review one past the last answer
navigation_run_prev_past_end(s, direction) ==
    IF s.answers = <<>>
    THEN Outcome(s, "nothing_to_review")
    ELSE CASE direction = "prev" ->
                Outcome(
                    [s EXCEPT !.review_index =
                        IF s.review_index = None
                        THEN Len(s.answers)
                        ELSE IF s.review_index - 1 > 0 THEN s.review_index - 1 ELSE 0],
                    "prev")
           [] direction = "next" ->
                IF s.review_index = None
                THEN Outcome(s, "at_live")
                ELSE IF s.review_index < Len(s.answers) - 1
                THEN render_question_message(
                        [s EXCEPT !.review_index = s.review_index + 1], "next_shown")
                ELSE render_question_message(
                        [s EXCEPT !.review_index = None], "back_to_live")
           [] OTHER -> Outcome(s, "ignored")

\* handle_navigation whose previous always starts over at the last answer
navigation_run_prev_restarts(s, direction) ==
    IF s.answers = <<>>
    THEN Outcome(s, "nothing_to_review")
    ELSE CASE direction = "prev" ->
                render_question_message(
                    [s EXCEPT !.review_index = Len(s.answers) - 1], "prev")
           [] direction = "next" ->
                IF s.review_index = None
                THEN Outcome(s, "at_live")
                ELSE IF s.review_index < Len(s.answers) - 1
                THEN render_question_message(
                        [s EXCEPT !.review_index = s.review_index + 1], "next_shown")
                ELSE render_question_message(
                        [s EXCEPT !.review_index = None], "back_to_live")
           [] OTHER -> Outcome(s, "ignored")

\* handle_navigation whose next stays at the last recorded answer
navigation_run_next_stays(s, direction) ==
    IF s.answers = <<>>
    THEN Outcome(s, "nothing_to_review")
    ELSE CASE direction = "prev" ->
                render_question_message(
                    [s EXCEPT !.review_index =
                        IF s.review_index = None
                        THEN Len(s.answers) - 1
                        ELSE IF s.review_index - 1 > 0 THEN s.review_index - 1 ELSE 0],
                    "prev")
           [] direction = "next" ->
                IF s.review_index = None
                THEN Outcome(s, "at_live")
                ELSE render_question_message(
                        [s EXCEPT !.review_index =
                            IF s.review_index < Len(s.answers) - 1
                            THEN s.review_index + 1 ELSE s.review_index],
                        "next_shown")
           [] OTHER -> Outcome(s, "ignored")

\* handle_navigation without the test for an empty answers list
navigation_run_no_empty_test(s, direction) ==
    CASE direction = "prev" ->
            Outcome([s EXCEPT !.review_index =
                        IF s.review_index = None
                        THEN (IF Len(s.answers) > 1 THEN Len(s.answers) - 1 ELSE 0)
                        ELSE IF s.review_index - 1 > 0 THEN s.review_index - 1 ELSE 0],
                    "prev")
      [] direction = "next" ->
            IF s.review_index = None
            THEN Outcome(s, "at_live")
            ELSE IF s.review_index < Len(s.answers) - 1
            THEN render_question_message(
                    [s EXCEPT !.review_index = s.review_index + 1], "next_shown")
            ELSE render_question_message(
                    [s EXCEPT !.review_index = None], "back_to_live")
      [] OTHER -> Outcome(s, "ignored")

\* handle_navigation whose next, outside review, opens the first answer
navigation_run_next_enters(s, direction) ==
    IF s.answers = <<>>
    THEN Outcome(s, "nothing_to_review")
    ELSE CASE direction = "prev" ->
                render_question_message(
                    [s EXCEPT !.review_index =
                        IF s.review_index = None
                        THEN Len(s.answers) - 1
                        ELSE IF s.review_index - 1 > 0 THEN s.review_index - 1 ELSE 0],
                    "prev")
           [] direction = "next" ->
                IF s.review_index = None
                THEN render_question_message([s EXCEPT !.review_index = 0], "next_shown")
                ELSE IF s.review_index < Len(s.answers) - 1
                THEN render_question_message(
                        [s EXCEPT !.review_index = s.review_index + 1], "next_shown")
                ELSE render_question_message(
                        [s EXCEPT !.review_index = None], "back_to_live")
           [] OTHER -> Outcome(s, "ignored")

\* handle_navigation on callback data nav|direction
navigation_run(s, direction) ==
    IF s.answers = <<>>
    THEN Outcome(s, "nothing_to_review")
    ELSE CASE direction = "prev" ->
                render_question_message(
                    [s EXCEPT !.review_index =
                        IF s.review_index = None
                        THEN Len(s.answers) - 1
                        ELSE IF s.review_index - 1 > 0 THEN s.review_index - 1 ELSE 0],
                    "prev")
           [] direction = "next" ->
                IF s.review_index = None
                THEN Outcome(s, "at_live")
                ELSE IF s.review_index < Len(s.answers) - 1
                THEN render_question_message(
                        [s EXCEPT !.review_index = s.review_index + 1], "next_shown")
                ELSE render_question_message(
                        [s EXCEPT !.review_index = None], "back_to_live")
           [] OTHER -> Outcome(s, "ignored")

(* ---------------------------- build_summary ---------------------------- *)
\* Question.topic, copied from the blueprint: a topic is written as its rank
\* in the order sorted() gives strings; questions can share a topic.
TopicOf(question_id) ==
    IF question_id \div 10 = 1
    THEN (IF question_id % 2 = 0 THEN 2 ELSE 1)
    ELSE (IF question_id % 2 = 0 THEN 3 ELSE 0)

\* sorted(set): the elements in ascending order, each once
RECURSIVE Sorted(_)
Sorted(S) ==
    IF S = {} THEN <<>>
    ELSE LET least == CHOOSE x \in S : \A y \in S : x <= y
         IN  <<least>> \o Sorted(S \ {least})

NotCorrect(answer) == ~answer.is_correct

IsCorrect(answer) == answer.is_correct

\* a build_summary that lists the topics of every answer
build_summary_every_topic(s) ==
    LET mistakes == SelectSeq(s.answers, NotCorrect)
    IN  [total |-> total_questions(s),
         correct_total |-> Len(SelectSeq(s.answers, IsCorrect)),
         no_mistakes |-> mistakes = <<>>,
         mistakes |-> mistakes,
         topics |-> IF mistakes = <<>> THEN <<>>
                    ELSE Sorted({TopicOf(s.answers[i].question) :
                                    i \in DOMAIN s.answers})]

\* build_summary: the counts of the header, whether the text ends with the
\* no-mistakes line, the mistakes it lists and the topics it lists
build_summary(s) ==
    LET mistakes == SelectSeq(s.answers, NotCorrect)
    IN  [total |-> total_questions(s),
         correct_total |-> Len(SelectSeq(s.answers, IsCorrect)),
         no_mistakes |-> mistakes = <<>>,
         mistakes |-> mistakes,
         topics |-> IF mistakes = <<>> THEN <<>>
                    ELSE Sorted({TopicOf(mistakes[i].question) :
                                    i \in DOMAIN mistakes})]

(* ------------------------------- state --------------------------------- *)
VARIABLES
    fsm,        \* per user: the aiogram FSM state (TestStates), "none" when cleared
    session,    \* per user: the Session the FSM storage holds
    sink,       \* per user: the results appended to the result store under the
                \* session_id of the session the user played last, until /start
    statuses,   \* per user: the statuses advance() returned in that session
    faults,     \* per user: the abnormal events of that session so far
    eval_call,  \* a call of QuestionEngine.evaluate on its own: the arguments,
                \* and how it ended
    materialized, \* one question of a bank file on its way through the loader
                  \* and QuestionEngine._materialize
    blocks_call \* a call of QuestionEngine.build_blocks on its own: the bank
                \* and the counts it works on, and the blocks it returned

vars == <<fsm, session, sink, statuses, faults, eval_call, materialized, blocks_call>>

\* a block of n materialized questions
Block(block_number, n) == [i \in 1..n |-> MakeId(block_number, i - 1)]

\* The question ids callbacks carry: the live question's, and that of the
\* question answered last (a delayed or repeated tap) or, before any answer,
\* an id of no question.
CallbackIds(s) ==
    (IF CurrentQuestionRaises(s) THEN {} ELSE {current_question(s).id})
        \cup (IF s.answers = <<>> THEN {ForeignId}
              ELSE {s.answers[Len(s.answers)].question})

\* the callback's argument matters only once the question id is accepted
IsLive(s, question_id) ==
    ~CurrentQuestionRaises(s) /\ current_question(s).id = question_id

\* does ResultStore.append succeed: it writes a file, which can fail
SinkOutcomes(u) == IF faults[u] < MaxFaults THEN {TRUE, FALSE} ELSE {TRUE}

\* Is a callback of the handler for questions of type handler_type, carrying
\* question_id, one that the keyboard of the live question does not offer?
Foreign(s, question_id, handler_type) ==
    /\ ~CurrentQuestionRaises(s)
    /\ current_question(s).id = question_id
    /\ current_question(s).type # handler_type

\* no question of a bank file under way
NoQuestion == [state |-> "idle", options |-> <<>>, meta |-> EmptyMap,
               question |-> QuestionById(MakeId(1, 0))]

\* no call of evaluate on its own
NoCall == [question |-> QuestionById(MakeId(1, 0)), user_answer |-> NoAnswer,
           state |-> "idle", is_correct |-> FALSE]

\* no call of build_blocks on its own
NoBlocks == [state |-> "idle", common_questions |-> <<>>, block_one_count |-> 0,
             role_known |-> FALSE, role_questions |-> <<>>, block_two_count |-> 0,
             block_one |-> <<>>, block_two |-> <<>>]

Init ==
    /\ fsm = [u \in Users |-> "none"]
    /\ session = [u \in Users |-> EmptySession]
    /\ sink = [u \in Users |-> <<>>]
    /\ statuses = [u \in Users |-> <<>>]
    /\ faults = [u \in Users |-> 0]
    /\ eval_call = NoCall
    /\ materialized = NoQuestion
    /\ blocks_call = NoBlocks

\* a storage that keeps one Session for all users
Commit_one_session(u, foreign, run) ==
    /\ foreign => faults[u] < MaxFaults
    /\ faults' = [faults EXCEPT ![u] =
                    IF foreign \/ run.outcome = "sink_failed" THEN @ + 1 ELSE @]
    /\ session' = [v \in Users |->
                        IF run.cleared THEN EmptySession ELSE run.session]
    /\ fsm' = [fsm EXCEPT ![u] = IF run.cleared THEN "none" ELSE @]
    /\ sink' = [sink EXCEPT ![u] = @ \o run.logged]
    /\ statuses' = [statuses EXCEPT ![u] = @ \o run.status]
    /\ UNCHANGED <<eval_call, materialized, blocks_call>>

\* the effect of one run of a handler of the answering state
Commit(u, foreign, run) ==
    /\ foreign => faults[u] < MaxFaults
    /\ faults' = [faults EXCEPT ![u] =
                    IF foreign \/ run.outcome = "sink_failed" THEN @ + 1 ELSE @]
    /\ session' = [session EXCEPT ![u] =
                        IF run.cleared THEN EmptySession ELSE run.session]
    /\ fsm' = [fsm EXCEPT ![u] = IF run.cleared THEN "none" ELSE @]
    /\ sink' = [sink EXCEPT ![u] = @ \o run.logged]
    /\ statuses' = [statuses EXCEPT ![u] = @ \o run.status]
    /\ UNCHANGED <<eval_call, materialized, blocks_call>>

(* ------------------------------ actions -------------------------------- *)
\* /start: state.clear(), then waiting_full_name
cmd_start(u) ==
    /\ fsm' = [fsm EXCEPT ![u] = "waiting_full_name"]
    /\ session' = [session EXCEPT ![u] = EmptySession]
    /\ sink' = [sink EXCEPT ![u] = <<>>]
    /\ statuses' = [statuses EXCEPT ![u] = <<>>]
    /\ faults' = [faults EXCEPT ![u] = 0]
    /\ UNCHANGED <<eval_call, materialized, blocks_call>>

\* a message in waiting_full_name: a full name moves on to choosing_role
collect_full_name(u) ==
    /\ fsm[u] = "waiting_full_name"
    /\ \E full \in BOOLEAN :
        fsm' = [fsm EXCEPT ![u] = IF full THEN "choosing_role" ELSE @]
    /\ UNCHANGED <<session, sink, statuses, faults, eval_call, materialized, blocks_call>>

\* a handle_role_choice that tests block one only
role_choice_run_block_one_only(block_one, block_two) ==
    IF block_one = <<>>
    THEN [created |-> FALSE, state |-> "choosing_role", session |-> EmptySession]
    ELSE [created |-> TRUE, state |-> "answering",
          session |-> NewSession(block_one, block_two)]

\* handle_role_choice once build_blocks returned: whether a Session is
\* stored, the FSM state the handler leaves, and the Session
role_choice_run(block_one, block_two) ==
    IF block_one = <<>>
    THEN [created |-> FALSE, state |-> "choosing_role", session |-> EmptySession]
    ELSE IF block_two = <<>>
    THEN [created |-> FALSE, state |-> "choosing_role", session |-> EmptySession]
    ELSE [created |-> TRUE, state |-> "answering",
          session |-> NewSession(block_one, block_two)]

\* a role button in choosing_role: build_blocks, then the new Session
handle_role_choice(u) ==
    /\ fsm[u] = "choosing_role"
    /\ \E n1 \in 0..MaxQuestions, n2 \in 0..MaxQuestions :
        /\ n1 + n2 <= MaxQuestions
        /\ LET run == role_choice_run(Block(1, n1), Block(2, n2))
           IN  /\ session' = [session EXCEPT ![u] =
                                IF run.created THEN run.session ELSE @]
               /\ fsm' = [fsm EXCEPT ![u] = run.state]
               /\ UNCHANGED <<sink, statuses, faults, eval_call, materialized, blocks_call>>

\* the callbacks a keyboard can deliver in the state the user is in, each
\* with the handler's run on it
on_single_choice(u) ==
    UNION {{[foreign |-> Foreign(session[u], question_id, single_choice),
             run |-> single_choice_run(session[u], question_id, choice_id, sink_ok)] :
                choice_id \in (IF IsLive(session[u], question_id)
                               THEN ChoiceIds ELSE {"c1"}),
                sink_ok \in (IF IsLive(session[u], question_id)
                             THEN SinkOutcomes(u) ELSE {TRUE})} :
           question_id \in CallbackIds(session[u])}

on_multi_choice(u) ==
    UNION {LET drafts == session[u].multi_choice_state
               selected == IF question_id \in DOMAIN drafts
                           THEN drafts[question_id] ELSE {}
               live == IsLive(session[u], question_id)
           IN  {[foreign |-> Foreign(session[u], question_id, multi_choice),
                 run |-> multi_choice_run(session[u], action, question_id, choice_id,
                                          order, sink_ok)] :
                    choice_id \in (IF live /\ action = "toggle"
                                   THEN ChoiceIds ELSE {"c1"}),
                    sink_ok \in (IF live /\ action = "submit" /\ selected # {}
                                 THEN SinkOutcomes(u) ELSE {TRUE}),
                    order \in (IF live /\ action = "submit"
                               THEN Orders(selected) ELSE {<<>>})} :
           action \in {"toggle", "reset", "submit"},
           question_id \in CallbackIds(session[u])}

on_matching(u) ==
    UNION {{[foreign |-> Foreign(session[u], question_id, matching),
             run |-> matching_run(session[u], action, question_id, item_id, sink_ok)] :
                item_id \in (CASE ~IsLive(session[u], question_id) -> {"1"}
                               [] action = "select" -> LeftIds
                               [] action = "assign" -> RightIds
                               [] OTHER -> {"1"}),
                sink_ok \in (IF IsLive(session[u], question_id) /\ action = "submit"
                             THEN SinkOutcomes(u) ELSE {TRUE})} :
           action \in {"select", "assign", "reset", "submit"},
           question_id \in CallbackIds(session[u])}

on_navigation(u) ==
    {[foreign |-> FALSE, run |-> navigation_run(session[u], direction)] :
        direction \in {"prev", "next"}}

\* the handlers when updates are handled one after the other: each runs to
\* its end before the next begins
handle_single_choice(u) ==
    /\ fsm[u] = "answering"
    /\ \E update \in on_single_choice(u) : Commit(u, update.foreign, update.run)

handle_multi_choice(u) ==
    /\ fsm[u] = "answering"
    /\ \E update \in on_multi_choice(u) : Commit(u, update.foreign, update.run)

handle_matching(u) ==
    /\ fsm[u] = "answering"
    /\ \E update \in on_matching(u) : Commit(u, update.foreign, update.run)

handle_navigation(u) ==
    /\ fsm[u] = "answering"
    /\ \E update \in on_navigation(u) : Commit(u, update.foreign, update.run)

UserStep(u) ==
    \/ cmd_start(u)
    \/ collect_full_name(u)
    \/ handle_role_choice(u)
    \/ handle_single_choice(u)
    \/ handle_multi_choice(u)
    \/ handle_matching(u)
    \/ handle_navigation(u)

\* one user talks to the bot
Next == UserStep("u1")

Spec == Init /\ [][Next]_vars

(* ------------- handlers of one user running as concurrent tasks -------- *)
\* start_polling handles every update in a task of its own. A handler runs
\* without interruption up to its first Telegram call: the awaits on
\* MemoryStorage do not suspend. Whatever a handler does after that call
\* leaves the Session as it is, except finish_session, whose state.clear()
\* comes after the report was sent: until then the FSM state is answering
\* and the storage holds the finished Session.
CommitSuspended(u, foreign, run) ==
    /\ foreign => faults[u] < MaxFaults
    /\ faults' = [faults EXCEPT ![u] =
                    IF foreign \/ run.outcome = "sink_failed" THEN @ + 1 ELSE @]
    /\ session' = [session EXCEPT ![u] = run.session]
    /\ sink' = [sink EXCEPT ![u] = @ \o run.logged]
    /\ statuses' = [statuses EXCEPT ![u] = @ \o run.status]
    /\ UNCHANGED <<fsm, eval_call, materialized, blocks_call>>

\* a finish_session is suspended in edit_message_text or send_summary
ReportPending(u) ==
    /\ fsm[u] = "answering"
    /\ statuses[u] # <<>>
    /\ statuses[u][Len(statuses[u])] = "done"

task_single_choice(u) ==
    /\ fsm[u] = "answering"
    /\ \E update \in on_single_choice(u) : CommitSuspended(u, update.foreign, update.run)

task_multi_choice(u) ==
    /\ fsm[u] = "answering"
    /\ \E update \in on_multi_choice(u) : CommitSuspended(u, update.foreign, update.run)

task_matching(u) ==
    /\ fsm[u] = "answering"
    /\ \E update \in on_matching(u) : CommitSuspended(u, update.foreign, update.run)

task_navigation(u) ==
    /\ fsm[u] = "answering"
    /\ \E update \in on_navigation(u) : CommitSuspended(u, update.foreign, update.run)

\* the suspended finish_session resumes: state.clear()
report_delivered(u) ==
    /\ ReportPending(u)
    /\ fsm' = [fsm EXCEPT ![u] = "none"]
    /\ session' = [session EXCEPT ![u] = EmptySession]
    /\ UNCHANGED <<sink, statuses, faults, eval_call, materialized, blocks_call>>

\* /start is taken to arrive when no report is under way
TaskStep(u) ==
    \/ ~ReportPending(u) /\ cmd_start(u)
    \/ collect_full_name(u)
    \/ handle_role_choice(u)
    \/ task_single_choice(u)
    \/ task_multi_choice(u)
    \/ task_matching(u)
    \/ task_navigation(u)
    \/ report_delivered(u)

NextTasks == TaskStep("u1")

SpecTasks == Init /\ [][NextTasks]_vars

(* ----------------------- two users, interleaved ------------------------- *)
MaxSharedQuestions == 2
MaxSharedFaults == 1

\* the abnormal events of both users' sessions so far
SharedFaults(f) == f["u1"] + f["u2"]

\* Both users talk to the bot, in any order, in sessions of at most
\* MaxSharedQuestions questions and with at most MaxSharedFaults abnormal
\* events between them.
NextUsers ==
    \E u \in Users :
        /\ UserStep(u)
        /\ total_questions(session'[u]) <= MaxSharedQuestions
        /\ SharedFaults(faults') <= MaxSharedFaults

SpecUsers == Init /\ [][NextUsers]_vars

(* ------------------- Session.advance driven on its own ------------------ *)
\* A Session as the dataclass builds it, over blocks of any length: block two
\* may be empty here (handle_role_choice never starts such a session).
InitAdvance ==
    /\ \E n1 \in 1..MaxBlockLen, n2 \in 0..MaxBlockLen :
        session = [u \in Users |->
                    IF u = "u1" THEN NewSession(Block(1, n1), Block(2, n2))
                    ELSE EmptySession]
    /\ fsm = [u \in Users |-> "none"]
    /\ sink = [u \in Users |-> <<>>]
    /\ statuses = [u \in Users |-> <<>>]
    /\ faults = [u \in Users |-> 0]
    /\ eval_call = NoCall
    /\ materialized = NoQuestion
    /\ blocks_call = NoBlocks

\* one call of session.advance(); the handlers call it only on a session that
\* has a live question (ensure_active_question has read current_question())
advance_call(u) ==
    /\ ~CurrentQuestionRaises(session[u])
    /\ session' = [session EXCEPT ![u] = advance(session[u]).s]
    /\ statuses' = [statuses EXCEPT ![u] = Append(@, advance(session[u]).status)]
    /\ UNCHANGED <<fsm, sink, faults, eval_call, materialized, blocks_call>>

NextAdvance == advance_call("u1")

SpecAdvance == InitAdvance /\ [][NextAdvance]_vars

(* ---------------- QuestionEngine.evaluate driven on its own ------------- *)
ChoiceIdAt(i) == <<"c1", "c2", "c3", "c4", "c5">>[i]

\* choice questions of either type over every pattern of is_correct flags
EvalChoiceQuestions ==
    {[id |-> MakeId(1, 0), block |-> 1, type |-> type,
      choices |-> [i \in 1..n |-> Choice(ChoiceIdAt(i), flags[i])],
      matching_left |-> <<>>, matching_right |-> <<>>,
      correct_mapping |-> EmptyMap] :
        type \in {single_choice, multi_choice},
        n \in 1..MaxChoices,
        flags \in [1..MaxChoices -> BOOLEAN]}

\* the dicts over the left and right items
Mappings == UNION {[keys -> RightIds] : keys \in SUBSET LeftIds}

EvalMatchingQuestions ==
    {[id |-> MakeId(1, 1), block |-> 1, type |-> matching, choices |-> <<>>,
      matching_left |-> <<"1", "2">>, matching_right |-> <<"A", "B">>,
      correct_mapping |-> m] : m \in {m \in Mappings : DOMAIN m = LeftIds}}

EvalQuestions == EvalChoiceQuestions \cup EvalMatchingQuestions

EvalListIds == {ChoiceIdAt(i) : i \in 1..MaxChoices} \cup {"1A", "2B"}

\* every payload shape: None, a bare id, a list of ids, a dict
EvalAnswers ==
    {NoAnswer}
        \cup {IdAnswer(id) : id \in EvalListIds \cup RightIds}
        \cup {ListAnswer(ids) : ids \in UNION {[1..n -> EvalListIds] : n \in 0..MaxListLen}}
        \cup {MapAnswer(m) : m \in Mappings}

InitEval ==
    /\ eval_call \in {[question |-> q, user_answer |-> a, state |-> "pending",
                        is_correct |-> FALSE] : q \in EvalQuestions, a \in EvalAnswers}
    /\ fsm = [u \in Users |-> "none"]
    /\ session = [u \in Users |-> EmptySession]
    /\ sink = [u \in Users |-> <<>>]
    /\ statuses = [u \in Users |-> <<>>]
    /\ faults = [u \in Users |-> 0]
    /\ materialized = NoQuestion
    /\ blocks_call = NoBlocks

\* the call returns a QuestionResult, or raises
evaluate_call ==
    /\ eval_call.state = "pending"
    /\ LET ev == evaluate(eval_call.question, eval_call.user_answer)
       IN  eval_call' =
              IF ev.raised
              THEN [eval_call EXCEPT !.state = "raised"]
              ELSE [eval_call EXCEPT !.state = "returned",
                                     !.is_correct = ev.result.is_correct]
    /\ UNCHANGED <<fsm, session, sink, statuses, faults, materialized, blocks_call>>

NextEval == evaluate_call

SpecEval == InitEval /\ [][NextEval]_vars

(* ------------- the loader and QuestionEngine._materialize --------------- *)
\* an option of a blueprint: (text, is_correct)
Option(text, is_correct) == [text |-> text, is_correct |-> is_correct]

OptionText(i) == <<"t1", "t2", "t3", "t4", "t5">>[i]

\* the option lists a bank file can hold for a question, texts distinct
RawOptions ==
    UNION {{[i \in 1..n |-> Option(OptionText(i), flags[i])] :
                flags \in [1..n -> BOOLEAN]} : n \in 0..MaxChoices}

correct_count(options) ==
    Cardinality({i \in DOMAIN options : options[i].is_correct})

\* a loader that keeps every question that has options
LoaderKeeps_any_options(options) == options # <<>>

\* _load_common_questions, _load_role_questions: a question without options
\* or without a correct option is skipped
LoaderKeeps(options) == ~(options = <<>> \/ correct_count(options) = 0)

\* random.shuffle(options): every order
Shuffles(options) ==
    {[i \in DOMAIN options |-> options[perm[i]]] :
        perm \in Permutations(DOMAIN options)}

\* _materialize, given the order the shuffle produced and the fresh id
materialize(shuffled, block_number, id) ==
    [id |-> id,
     block |-> block_number,
     type |-> IF correct_count(shuffled) > 1 THEN multi_choice ELSE single_choice,
     choices |-> [i \in DOMAIN shuffled |->
                    TextChoice(ChoiceIdAt(i), shuffled[i].text, shuffled[i].is_correct)],
     matching_left |-> <<>>,
     matching_right |-> <<>>,
     correct_mapping |-> EmptyMap]

\* the meta dict the loader gives a blueprint
BankMeta == [source |-> "common"]

\* a _materialize that shuffles blueprint.options itself
blueprint_shuffled_in_place(options, meta, shuffled) ==
    [options |-> shuffled, meta |-> meta]

\* the blueprint after _materialize: the shuffle ran on list(blueprint.options)
\* and the Question got dict(blueprint.meta), both copies
blueprint_after_materialize(options, meta, shuffled) ==
    [options |-> options, meta |-> meta]

InitMaterialize ==
    /\ materialized \in {[state |-> "raw", options |-> options, meta |-> BankMeta,
                          question |-> NoQuestion.question] : options \in RawOptions}
    /\ eval_call = NoCall
    /\ blocks_call = NoBlocks
    /\ fsm = [u \in Users |-> "none"]
    /\ session = [u \in Users |-> EmptySession]
    /\ sink = [u \in Users |-> <<>>]
    /\ statuses = [u \in Users |-> <<>>]
    /\ faults = [u \in Users |-> 0]

\* the loader reads the question: it becomes a blueprint of the bank, or not
load_question ==
    /\ materialized.state = "raw"
    /\ materialized' = [materialized EXCEPT !.state =
                            IF LoaderKeeps(materialized.options)
                            THEN "blueprint" ELSE "skipped"]
    /\ UNCHANGED <<fsm, session, sink, statuses, faults, eval_call, blocks_call>>

\* _build_block materializes the blueprint for a block
materialize_call ==
    /\ materialized.state = "blueprint"
    /\ \E shuffled \in Shuffles(materialized.options), block_number \in {1, 2} :
        materialized' =
            LET after == blueprint_after_materialize(materialized.options,
                                                     materialized.meta, shuffled)
            IN  [materialized EXCEPT
                    !.state = "built",
                    !.options = after.options,
                    !.meta = after.meta,
                    !.question = materialize(shuffled, block_number,
                                             MakeId(block_number, 0))]
    /\ UNCHANGED <<fsm, session, sink, statuses, faults, eval_call, blocks_call>>

\* the payloads the keyboards of a choice question can submit: one choice
\* id, or the ids of a non-empty selection in some order
KeyboardAnswers(question) ==
    LET ids == {question.choices[i].id : i \in DOMAIN question.choices}
    IN  {IdAnswer(id) : id \in ids}
            \cup {ListAnswer(order) :
                    order \in UNION {Orders(S) : S \in SUBSET ids \ {{}}}}

\* evaluate is called on the materialized question
evaluate_materialized ==
    /\ materialized.state = "built"
    /\ eval_call.state = "idle"
    /\ \E user_answer \in KeyboardAnswers(materialized.question) :
        LET ev == evaluate(materialized.question, user_answer)
        IN  eval_call' =
              [question |-> materialized.question,
               user_answer |-> user_answer,
               state |-> IF ev.raised THEN "raised" ELSE "returned",
               is_correct |-> IF ev.raised THEN FALSE ELSE ev.result.is_correct]
    /\ UNCHANGED <<fsm, session, sink, statuses, faults, materialized, blocks_call>>

NextMaterialize == load_question \/ materialize_call \/ evaluate_materialized

SpecMaterialize == InitMaterialize /\ [][NextMaterialize]_vars

(* --------------------- QuestionEngine.build_blocks ---------------------- *)
MaxPool == 2

\* a blueprint of the bank: its prompt and its options
Blueprint(prompt) == [prompt |-> prompt, options |-> <<Option("t1", TRUE)>>]

PromptAt(i) == <<"p1", "p2", "p3", "p4">>[i]

\* a pool of n blueprints as the loader lists them, prompts distinct
Pool(n) == [i \in 1..n |-> Blueprint(PromptAt(i))]

Min(a, b) == IF a < b THEN a ELSE b

\* a sample that may take a position of the pool more than once
Samples_with_replacement(pool, sample_size) == [1..sample_size -> DOMAIN pool]

\* random.sample(pool, sample_size): the positions chosen, in the order
\* chosen, none twice
Samples(pool, sample_size) ==
    {selected \in [1..sample_size -> DOMAIN pool] :
        \A i, j \in 1..sample_size : selected[i] = selected[j] => i = j}

\* the Question _materialize returns for a blueprint: the prompt is copied
BuiltQuestion(blueprint, block_number, id) ==
    [prompt |-> blueprint.prompt]
        @@ materialize(CHOOSE shuffled \in Shuffles(blueprint.options) : TRUE,
                       block_number, id)

\* _build_block, given the positions random.sample chose
_build_block(pool, selected, block_number) ==
    IF pool = <<>>
    THEN <<>>
    ELSE [i \in DOMAIN selected |->
            BuiltQuestion(pool[selected[i]], block_number, MakeId(block_number, i - 1))]

InitBuild ==
    /\ blocks_call \in
            {[NoBlocks EXCEPT !.state = "called",
                              !.common_questions = Pool(n1),
                              !.block_one_count = count1,
                              !.role_known = known,
                              !.role_questions = IF known THEN Pool(n2) ELSE <<>>,
                              !.block_two_count = IF known THEN count2 ELSE 0] :
                n1 \in 0..MaxPool, n2 \in 0..MaxPool,
                count1 \in 0..(MaxPool + 1), count2 \in 0..(MaxPool + 1),
                known \in BOOLEAN}
    /\ eval_call = NoCall
    /\ materialized = NoQuestion
    /\ fsm = [u \in Users |-> "none"]
    /\ session = [u \in Users |-> EmptySession]
    /\ sink = [u \in Users |-> <<>>]
    /\ statuses = [u \in Users |-> <<>>]
    /\ faults = [u \in Users |-> 0]

\* build_blocks: block one from the common pool, then the role's block two;
\* an unknown role raises ValueError
build_blocks ==
    /\ blocks_call.state = "called"
    /\ LET call == blocks_call
           size_one == Min(call.block_one_count, Len(call.common_questions))
           size_two == Min(call.block_two_count, Len(call.role_questions))
       IN  \E selected_one \in Samples(call.common_questions, size_one),
              selected_two \in Samples(call.role_questions, size_two) :
            blocks_call' =
                IF ~call.role_known
                THEN [call EXCEPT !.state = "raised"]
                ELSE [call EXCEPT
                        !.state = "returned",
                        !.block_one = _build_block(call.common_questions,
                                                   selected_one, 1),
                        !.block_two = _build_block(call.role_questions,
                                                   selected_two, 2)]
    /\ UNCHANGED <<fsm, session, sink, statuses, faults, eval_call, materialized>>

NextBuild == build_blocks

SpecBuild == InitBuild /\ [][NextBuild]_vars

(* ============================== properties ============================== *)
IsPrefix(a, b) == Len(a) <= Len(b) /\ \A i \in 1..Len(a) : a[i] = b[i]

Answering(u) == fsm[u] = "answering"

\* the statuses advance() returns over a session of n1 and n2 questions
ExpectedStatuses(n1, n2) ==
    [i \in 1..(n1 + n2) |->
        IF i = n1 THEN "switch" ELSE IF i = n1 + n2 THEN "done" ELSE "next"]

(* C1: over a session with n1 >= 1 and n2 >= 1 questions advance() returns
   next (n1-1 times), switch (once, leaving current_block = 2 and
   current_index = 0), next (n2-1 times), done; the statuses returned so far
   are always a prefix of that sequence, and a finished session has returned
   all of it. *)
C1_StatusSequence ==
    \A u \in Users :
        IF Answering(u)
        THEN LET s == session[u]
                 done == statuses[u]
             IN  /\ IsPrefix(done, ExpectedStatuses(Len(s.block_one), Len(s.block_two)))
                 /\ Len(done) < total_questions(s)
                 /\ (done # <<>> /\ done[Len(done)] = "switch")
                        => (s.current_block = 2 /\ s.current_index = 0)
        ELSE \/ statuses[u] = <<>>
             \/ \E n1 \in 1..MaxQuestions, n2 \in 1..MaxQuestions :
                    statuses[u] = ExpectedStatuses(n1, n2)

\* the spec's scenario: two questions, then one, all answered
C1_Witness ==
    /\ fsm["u1"] = "none"
    /\ statuses["u1"] = <<"next", "switch", "done">>

\* the ids of the session's questions
QuestionIds(s) == Range(s.block_one) \cup Range(s.block_two)

\* every question id a callback could carry that is not the live question's
StaleIds(s) ==
    (QuestionIds(s) \cup {ForeignId})
        \ (IF CurrentQuestionRaises(s) THEN {} ELSE {current_question(s).id})

\* the run was turned away as stale and left nothing behind
RejectedAsStale(s, run) ==
    /\ run.outcome = "stale"
    /\ run.session = s
    /\ run.logged = <<>>
    /\ run.status = <<>>
    /\ ~run.cleared

(* C2: a single-choice pick, or any multi-choice or matching action, that
   carries a question id other than the live question's is rejected as stale
   and leaves the whole session (answers, position, review_index, drafts)
   as it was. *)
C2_StaleRejected ==
    \A u \in Users :
        Answering(u) =>
            LET s == session[u]
            IN  \A question_id \in StaleIds(s), sink_ok \in BOOLEAN :
                    /\ \A choice_id \in ChoiceIds :
                        RejectedAsStale(s,
                            single_choice_run(s, question_id, choice_id, sink_ok))
                    /\ \A action \in {"toggle", "reset", "submit"}, choice_id \in ChoiceIds :
                        RejectedAsStale(s,
                            multi_choice_run(s, action, question_id, choice_id,
                                             <<choice_id>>, sink_ok))
                    /\ \A action \in {"select", "assign", "reset", "submit"},
                          item_id \in LeftIds \cup RightIds :
                        RejectedAsStale(s,
                            matching_run(s, action, question_id, item_id, sink_ok))

\* a session with recorded answers and a draft, where an answered question's
\* id is stale
C2_Witness ==
    /\ Answering("u1")
    /\ session["u1"].answers # <<>>
    /\ session["u1"].matching_state # <<>>
    /\ session["u1"].answers[1].question \in StaleIds(session["u1"])
    /\ single_choice_run(session["u1"], session["u1"].answers[1].question,
                         "c1", TRUE).outcome = "stale"

(* C3: while the user is reviewing a past answer (review_index set) no step
   of the session appends to answers or moves the position: a submit for the
   live question is turned away. Stated for sessions that have seen no
   abnormal event (no failed sink write, no callback of a keyboard of another
   question type), so that it rests on none of them. *)
C3_NoSubmitWhileReviewing ==
    [][\A u \in Users :
        (/\ Answering(u) /\ fsm'[u] = "answering"
         /\ session[u].review_index # None
         /\ faults'[u] = 0)
            => /\ session'[u].answers = session[u].answers
               /\ session'[u].current_index = session[u].current_index
               /\ session'[u].current_block = session[u].current_block]_vars

(* C4: whenever an operation can begin on a session, len(answers) equals the
   number of advance() calls completed on it. *)
C4_AnswersMatchAdvances ==
    \A u \in Users :
        Answering(u) => Len(session[u].answers) = Len(statuses[u])

(* C5 as stated: across every advance() call current_index never decreases. *)
C5_IndexNeverDecreases ==
    [][\A u \in Users :
        session'[u].current_index >= session[u].current_index]_vars

(* C5 as amended: across every advance() call the position never moves
   back: current_block never decreases; while the block stays the same
   current_index grows by one; current_index falls back to 0 only in the one
   call that switches from block 1 (at its last question) to block 2. *)
C5_PositionNeverMovesBack ==
    [][\A u \in Users :
        LET s == session[u]
            t == session'[u]
        IN  statuses'[u] # statuses[u] =>
            /\ t.current_block >= s.current_block
            /\ t.current_block = s.current_block
                  => t.current_index = s.current_index + 1
            /\ t.current_block # s.current_block
                  => /\ s.current_block = 1 /\ t.current_block = 2
                     /\ s.current_index = Len(s.block_one) - 1
                     /\ t.current_index = 0]_vars

\* the switch has reset current_index from 1 to 0, and block two went on
C5_Witness ==
    /\ Len(session["u1"].block_one) = 2
    /\ session["u1"].current_block = 2
    /\ session["u1"].current_index = 1
    /\ statuses["u1"] = <<"next", "switch", "next">>

\* every navigation run and what it leaves alone
NavigationFrame(s, run) ==
    /\ run.session.current_index = s.current_index
    /\ run.session.current_block = s.current_block
    /\ run.session.answers = s.answers
    /\ run.session.block_one = s.block_one
    /\ run.session.block_two = s.block_two
    /\ run.logged = <<>>
    /\ run.status = <<>>
    /\ ~run.cleared

(* C6: review navigation, previous or next, from any reachable session state
   leaves current_index, current_block and answers unchanged, appends no
   result (no evaluation) and emits nothing to the result sink. *)
C6_NavigationFrame ==
    \A u \in Users :
        Answering(u) =>
            \A direction \in {"prev", "next"} :
                NavigationFrame(session[u], navigation_run(session[u], direction))

\* the user has stepped back twice and is at the first of two answers
C6_Witness ==
    /\ Answering("u1")
    /\ Len(session["u1"].answers) = 2
    /\ session["u1"].review_index = 0
    /\ session["u1"].current_index = 1

(* C7: with an empty block two, the advance() that finishes the last question
   of block one returns done, never switch, and current_block stays 1. *)
C7_EmptyBlockTwoDone ==
    \A u \in Users :
        LET s == session[u]
        IN  s.block_two = <<>> =>
                /\ s.current_block = 1
                /\ \A i \in DOMAIN statuses[u] :
                      statuses[u][i] = IF i < Len(s.block_one) THEN "next" ELSE "done"

\* two questions in block one, none in block two, both answered
C7_Witness ==
    /\ Len(session["u1"].block_one) = 2
    /\ session["u1"].block_two = <<>>
    /\ statuses["u1"] = <<"next", "done">>

(* C8: answers is append-only: within a session every step leaves the
   recorded entries as they are, in place and content, and adds at most one
   at the end; a step in which advance() ran or the sink got a record (an
   accepted submit) adds exactly one. *)
C8_AppendOnly ==
    [][\A u \in Users :
        /\ (Answering(u) /\ fsm'[u] = "answering")
              => /\ IsPrefix(session[u].answers, session'[u].answers)
                 /\ Len(session'[u].answers) <= Len(session[u].answers) + 1
                 /\ (statuses'[u] # statuses[u] \/ sink'[u] # sink[u])
                        => /\ Len(session'[u].answers) = Len(session[u].answers) + 1
                           /\ sink'[u] = Append(sink[u],
                                    session'[u].answers[Len(session'[u].answers)])
        /\ (Answering(u) /\ fsm'[u] = "none")
              => /\ Len(sink'[u]) = Len(sink[u]) + 1
                 /\ IsPrefix(sink[u], sink'[u])]_vars

\* two recorded answers of different payload kinds, the user reviewing, a draft open
C8_Witness ==
    /\ Answering("u1")
    /\ Len(session["u1"].answers) = 2
    /\ session["u1"].answers[1].user_answer.kind = "id"
    /\ session["u1"].answers[2].user_answer.kind = "map"
    /\ session["u1"].review_index = 0
    /\ session["u1"].multi_choice_state # <<>>

(* C9: evaluate never fails: whatever the question type and the payload
   shape, the call returns a QuestionResult. *)
C9_EvaluateNeverRaises == eval_call.state # "raised"

\* the id of the one choice flagged correct
OneCorrectChoice(question) ==
    Cardinality({i \in DOMAIN question.choices : question.choices[i].is_correct}) = 1

TheCorrectChoice(question) ==
    question.choices[CHOOSE i \in DOMAIN question.choices :
                        question.choices[i].is_correct]

(* C10: for a single-choice question (one choice flagged correct) evaluate
   returns is_correct = true if and only if the submitted answer is the id
   of that choice. *)
C10_SingleChoiceRule ==
    (/\ eval_call.state \in {"returned", "raised"}
     /\ eval_call.question.type = single_choice
     /\ OneCorrectChoice(eval_call.question))
        => ((eval_call.state = "returned" /\ eval_call.is_correct)
                <=> (/\ eval_call.user_answer.kind = "id"
                     /\ eval_call.user_answer.id = TheCorrectChoice(eval_call.question).id))

\* the correct choice is the second of three and the user picked it
C10_Witness ==
    /\ eval_call.state = "returned"
    /\ eval_call.question.type = single_choice
    /\ Len(eval_call.question.choices) = 3
    /\ OneCorrectChoice(eval_call.question)
    /\ eval_call.question.choices[2].is_correct
    /\ eval_call.user_answer = IdAnswer("c2")
    /\ eval_call.is_correct

\* the ids of the choices flagged correct
FlaggedIds(question) ==
    {c.id : c \in {question.choices[i] : i \in DOMAIN question.choices}} \
        {question.choices[i].id : i \in {j \in DOMAIN question.choices :
                                            ~question.choices[j].is_correct}}

(* C11: for a multi-choice question and a submitted list of ids (or nothing
   at all) evaluate returns, and returns is_correct = true if and only if
   the set of submitted ids is non-empty and equals the set of ids of the
   choices flagged correct; an empty submission is incorrect even when no
   choice is flagged correct. *)
C11_MultiChoiceRule ==
    (/\ eval_call.state \in {"returned", "raised"}
     /\ eval_call.question.type = multi_choice
     /\ eval_call.user_answer.kind \in {"list", "none"})
        => LET submitted == IF eval_call.user_answer.kind = "list"
                            THEN {eval_call.user_answer.ids[i] :
                                    i \in DOMAIN eval_call.user_answer.ids}
                            ELSE {}
           IN  /\ eval_call.state = "returned"
               /\ eval_call.is_correct
                    <=> (/\ submitted # {}
                         /\ \A id \in submitted : id \in FlaggedIds(eval_call.question)
                         /\ \A id \in FlaggedIds(eval_call.question) : id \in submitted)

\* two of three choices flagged, both submitted, the other way round
C11_Witness ==
    /\ eval_call.state = "returned"
    /\ eval_call.question.type = multi_choice
    /\ FlaggedIds(eval_call.question) = {"c1", "c3"}
    /\ eval_call.user_answer = ListAnswer(<<"c3", "c1">>)
    /\ eval_call.is_correct

(* C12: for a matching question and a submitted left-to-right mapping
   evaluate returns, and returns is_correct = true if and only if the
   mapping has exactly the keys of correct_mapping and the same value at
   every key. *)
C12_MatchingRule ==
    (/\ eval_call.state \in {"returned", "raised"}
     /\ eval_call.question.type = matching
     /\ eval_call.user_answer.kind = "map")
        => LET submitted == eval_call.user_answer.map
               correct == eval_call.question.correct_mapping
           IN  /\ eval_call.state = "returned"
               /\ eval_call.is_correct
                    <=> (/\ \A k \in DOMAIN submitted : k \in DOMAIN correct
                         /\ \A k \in DOMAIN correct :
                              k \in DOMAIN submitted /\ submitted[k] = correct[k])

\* a mapping that has one of the two correct pairs and no other is incorrect
C12_Witness ==
    /\ eval_call.state = "returned"
    /\ eval_call.question.type = matching
    /\ eval_call.user_answer.kind = "map"
    /\ DOMAIN eval_call.user_answer.map = {"1"}
    /\ eval_call.user_answer.map["1"] = eval_call.question.correct_mapping["1"]
    /\ ~eval_call.is_correct

\* how many entries of a list of flagged records are flagged
FlaggedCount(entries) ==
    Cardinality({i \in DOMAIN entries : entries[i].is_correct = TRUE})

(* C13: for every question materialized from a blueprint of the bank,
   submitting the exact correct payload (the id of the correct choice of a
   single-choice question, the ids of all correct choices of a multi-choice
   question, in any order) yields is_correct = true, and for a multi-choice
   question any other non-empty set of its choice ids yields false. *)
C13_RoundTrip ==
    (materialized.state = "built" /\ eval_call.state \in {"returned", "raised"})
        => LET question == materialized.question
               user_answer == eval_call.user_answer
               flagged == FlaggedIds(question)
               submitted == {user_answer.ids[i] : i \in DOMAIN user_answer.ids}
           IN  /\ flagged # {}
               /\ (question.type = single_choice /\ user_answer.kind = "id"
                        /\ user_answer.id \in flagged)
                    => (eval_call.state = "returned" /\ eval_call.is_correct)
               /\ (question.type = multi_choice /\ user_answer.kind = "list"
                        /\ submitted = flagged)
                    => (eval_call.state = "returned" /\ eval_call.is_correct)
               /\ (question.type = multi_choice /\ user_answer.kind = "list"
                        /\ submitted # flagged)
                    => (eval_call.state = "returned" /\ ~eval_call.is_correct)

\* three options with the first and last correct, shuffled so that the
\* correct ones come first; both submitted
C13_Witness ==
    /\ materialized.state = "built"
    /\ materialized.options = <<Option("t1", TRUE), Option("t2", FALSE), Option("t3", TRUE)>>
    /\ materialized.question.type = multi_choice
    /\ FlaggedIds(materialized.question) = {"c1", "c2"}
    /\ eval_call.state = "returned"
    /\ eval_call.user_answer = ListAnswer(<<"c2", "c1">>)
    /\ eval_call.is_correct

(* C14: every question materialized from a blueprint of the bank is
   single-choice if and only if exactly one option of the blueprint is
   flagged correct and multi-choice if and only if two or more are; a
   single-choice question has exactly one choice with is_correct = true, a
   multi-choice question at least two. *)
C14_TypeByCorrectCount ==
    materialized.state = "built"
        => LET question == materialized.question
               blueprint == FlaggedCount(materialized.options)
               built == FlaggedCount(question.choices)
           IN  /\ question.type \in {single_choice, multi_choice}
               /\ question.type = single_choice <=> blueprint = 1
               /\ question.type = multi_choice <=> blueprint >= 2
               /\ question.type = single_choice => built = 1
               /\ question.type = multi_choice => built >= 2
               /\ Len(question.choices) = Len(materialized.options)

\* a blueprint with one correct option of three, shuffled to the last place
C14_Witness ==
    /\ materialized.state = "built"
    /\ materialized.options = <<Option("t1", TRUE), Option("t2", FALSE), Option("t3", FALSE)>>
    /\ materialized.question.type = single_choice
    /\ materialized.question.choices[3].is_correct

\* the live question's id, where there is a live question
LiveIds(s) == IF CurrentQuestionRaises(s) THEN {} ELSE {current_question(s).id}

\* the drafts of a question as the handlers and the renderer read them
SelectionOf(s, question_id) ==
    IF question_id \in DOMAIN s.multi_choice_state
    THEN s.multi_choice_state[question_id] ELSE {}

MappingOf(s, question_id) ==
    IF question_id \in DOMAIN s.matching_state
    THEN s.matching_state[question_id] ELSE EmptyMap

FocusOf(s, question_id) ==
    IF question_id \in DOMAIN s.matching_focus
    THEN s.matching_focus[question_id] ELSE NoFocus

\* no right item is held by two left items
Injective(mapping) ==
    \A k1 \in DOMAIN mapping, k2 \in DOMAIN mapping :
        mapping[k1] = mapping[k2] => k1 = k2

(* C15: in every reachable state the partial mapping of every question is
   injective: no right item is assigned to two left items at once. *)
C15_MappingInjective ==
    \A u \in Users :
        \A question_id \in DOMAIN session[u].matching_state :
            Injective(session[u].matching_state[question_id])

\* both left items hold a right item
C15_Witness ==
    /\ Answering("u1")
    /\ \E question_id \in LiveIds(session["u1"]) :
        /\ question_id \in DOMAIN session["u1"].matching_state
        /\ DOMAIN session["u1"].matching_state[question_id] = {"1", "2"}

(* C16: with left item L in focus on the live question, assign of right
   item R yields a mapping that holds L -> R, holds no other left item that
   had R, keeps every other pair as it was, and clears the focus; the rest
   of the session is untouched. *)
C16_AssignEffect ==
    \A u \in Users :
        Answering(u) =>
            LET s == session[u]
            IN  \A question_id \in LiveIds(s), right \in RightIds :
                    FocusOf(s, question_id) # NoFocus =>
                        LET left == FocusOf(s, question_id)
                            before == MappingOf(s, question_id)
                            run == matching_run(s, "assign", question_id, right, TRUE)
                            after == MappingOf(run.session, question_id)
                        IN  /\ run.outcome = "assigned"
                            /\ left \in DOMAIN after /\ after[left] = right
                            /\ \A k \in DOMAIN after : after[k] = right => k = left
                            /\ \A k \in (DOMAIN before \cup DOMAIN after) \ {left} :
                                  IF k \in DOMAIN before /\ before[k] = right
                                  THEN k \notin DOMAIN after
                                  ELSE /\ k \in DOMAIN before /\ k \in DOMAIN after
                                       /\ after[k] = before[k]
                            /\ FocusOf(run.session, question_id) = NoFocus
                            /\ run.session.answers = s.answers
                            /\ run.session.current_index = s.current_index
                            /\ run.session.current_block = s.current_block

\* the spec's scenario at its middle: 1 holds A, 2 is in focus; assign(A)
\* is about to evict 1
C16_Witness ==
    /\ Answering("u1")
    /\ \E question_id \in LiveIds(session["u1"]) :
        /\ MappingOf(session["u1"], question_id) = [k \in {"1"} |-> "A"]
        /\ FocusOf(session["u1"], question_id) = "2"
        /\ MappingOf(matching_run(session["u1"], "assign", question_id, "A", TRUE).session,
                     question_id) = [k \in {"2"} |-> "A"]

\* the run recorded nothing, advanced nothing and left the position, the
\* answers and the review cursor alone
NoProgress(s, run) ==
    /\ run.session.answers = s.answers
    /\ run.session.current_index = s.current_index
    /\ run.session.current_block = s.current_block
    /\ run.session.review_index = s.review_index
    /\ run.session.block_one = s.block_one
    /\ run.session.block_two = s.block_two
    /\ run.logged = <<>>
    /\ run.status = <<>>
    /\ ~run.cleared

(* C17: matching submit on the live matching question is accepted exactly
   when every left item of the question has a right item; otherwise it ends
   as incomplete and leaves answers, position, and the mapping and focus of
   the question as they were. *)
C17_SubmitNeedsCompleteMapping ==
    \A u \in Users :
        Answering(u) =>
            LET s == session[u]
            IN  \A question_id \in LiveIds(s), sink_ok \in BOOLEAN :
                    current_question(s).type = matching =>
                        LET question == current_question(s)
                            before == MappingOf(s, question_id)
                            complete == \A i \in DOMAIN question.matching_left :
                                            question.matching_left[i] \in DOMAIN before
                            run == matching_run(s, "submit", question_id, "1", sink_ok)
                        IN  IF complete
                            THEN /\ run.outcome \in {"next", "switch", "done", "sink_failed"}
                                 /\ run.session.answers =
                                        Append(s.answers,
                                               [question |-> question_id,
                                                is_correct |-> before = question.correct_mapping,
                                                user_answer |-> MapAnswer(before)])
                            ELSE /\ run.outcome = "incomplete"
                                 /\ NoProgress(s, run)
                                 /\ MappingOf(run.session, question_id) = before
                                 /\ FocusOf(run.session, question_id) = FocusOf(s, question_id)
                                 /\ run.session.multi_choice_state = s.multi_choice_state

\* the spec's scenario at its end: the mapping is {2:A}, 1 has nothing, and
\* submit is turned away
C17_Witness ==
    /\ Answering("u1")
    /\ \E question_id \in LiveIds(session["u1"]) :
        /\ current_question(session["u1"]).type = matching
        /\ MappingOf(session["u1"], question_id) = [k \in {"2"} |-> "A"]
        /\ matching_run(session["u1"], "submit", question_id, "1", TRUE).outcome
                = "incomplete"

\* two dicts agree on every key but question_id
SameOffKey(before, after, question_id) ==
    /\ DOMAIN after \ {question_id} = DOMAIN before \ {question_id}
    /\ \A k \in DOMAIN before \ {question_id} : after[k] = before[k]

(* C18: multi-choice toggle and reset and matching select, assign and reset
   on the live question change nothing but the draft entries keyed by that
   question's id of their own kind: answers, current_index, current_block
   and review_index stay as they were, nothing is logged, advance() is not
   called. *)
C18_DraftActionsFrame ==
    \A u \in Users :
        Answering(u) =>
            LET s == session[u]
            IN  \A question_id \in LiveIds(s) :
                    /\ \A action \in {"toggle", "reset"}, choice_id \in ChoiceIds :
                        LET run == multi_choice_run(s, action, question_id, choice_id,
                                                    <<>>, TRUE)
                        IN  /\ NoProgress(s, run)
                            /\ SameOffKey(s.multi_choice_state,
                                          run.session.multi_choice_state, question_id)
                            /\ run.session.matching_state = s.matching_state
                            /\ run.session.matching_focus = s.matching_focus
                    /\ \A action \in {"select", "assign", "reset"},
                          item_id \in LeftIds \cup RightIds :
                        LET run == matching_run(s, action, question_id, item_id, TRUE)
                        IN  /\ NoProgress(s, run)
                            /\ SameOffKey(s.matching_state,
                                          run.session.matching_state, question_id)
                            /\ SameOffKey(s.matching_focus,
                                          run.session.matching_focus, question_id)
                            /\ run.session.multi_choice_state = s.multi_choice_state

\* the user reviews the first answer while the live multi-choice question has
\* a selection; a toggle edits it
C18_Witness ==
    /\ Answering("u1")
    /\ session["u1"].review_index = 0
    /\ \E question_id \in LiveIds(session["u1"]) :
        /\ current_question(session["u1"]).type = multi_choice
        /\ SelectionOf(session["u1"], question_id) = {"c1"}
        /\ SelectionOf(multi_choice_run(session["u1"], "toggle", question_id, "c2",
                                        <<>>, TRUE).session, question_id) = {"c1", "c2"}

\* the ids of the questions the session has moved past: their submit was
\* accepted and its advance() completed
PassedIds(s) ==
    IF s.current_block = 1
    THEN {s.block_one[i] : i \in {j \in DOMAIN s.block_one : j <= s.current_index}}
    ELSE Range(s.block_one)
            \cup {s.block_two[i] : i \in {j \in DOMAIN s.block_two : j <= s.current_index}}

\* the question ids that hold a draft entry of either kind
DraftKeys(s) ==
    DOMAIN s.multi_choice_state \cup DOMAIN s.matching_state \cup DOMAIN s.matching_focus

(* C19: once an accepted submit for a question has completed, no draft entry
   keyed by that question's id remains in multi_choice_state, matching_state
   or matching_focus, whatever kind of submit it was. *)
C19_NoDraftAfterSubmit ==
    \A u \in Users :
        Answering(u) => PassedIds(session[u]) \cap DraftKeys(session[u]) = {}

(* C20: for each question id at most one of the two draft kinds (multi-choice
   selection; matching mapping or focus) holds an entry. *)
C20_OneDraftKindPerQuestion ==
    \A u \in Users :
        DOMAIN session[u].multi_choice_state
            \cap (DOMAIN session[u].matching_state \cup DOMAIN session[u].matching_focus)
                = {}

\* a navigation run changed nothing in the session but review_index
OnlyReviewIndex(s, run) ==
    /\ run.session = [s EXCEPT !.review_index = run.session.review_index]
    /\ run.logged = <<>>
    /\ run.status = <<>>
    /\ ~run.cleared

(* C21: review previous with at least one recorded answer: a review_index of
   none becomes len(answers) - 1, any other becomes max(0, review_index - 1);
   nothing else in the session changes. *)
C21_ReviewPrevious ==
    \A u \in Users :
        (Answering(u) /\ session[u].answers # <<>>) =>
            LET s == session[u]
                run == navigation_run(s, "prev")
            IN  /\ OnlyReviewIndex(s, run)
                /\ s.review_index = None
                      => run.session.review_index = Len(s.answers) - 1
                /\ (s.review_index # None /\ s.review_index >= 1)
                      => run.session.review_index = s.review_index - 1
                /\ s.review_index = 0 => run.session.review_index = 0

\* the user is at the second of two recorded answers; previous leads to the first
C21_Witness ==
    /\ Answering("u1")
    /\ Len(session["u1"].answers) = 2
    /\ session["u1"].review_index = 1
    /\ navigation_run(session["u1"], "prev").session.review_index = 0

(* C22: review next: with review_index none it changes nothing; with
   review_index < len(answers) - 1 it adds one; with review_index =
   len(answers) - 1 it sets review_index to none. *)
C22_ReviewNext ==
    \A u \in Users :
        (Answering(u) /\ session[u].answers # <<>>) =>
            LET s == session[u]
                run == navigation_run(s, "next")
            IN  /\ OnlyReviewIndex(s, run)
                /\ s.review_index = None => run.session = s
                /\ (s.review_index # None /\ s.review_index < Len(s.answers) - 1)
                      => run.session.review_index = s.review_index + 1
                /\ s.review_index = Len(s.answers) - 1
                      => run.session.review_index = None

\* the user is at the last of two recorded answers; next leads back to the
\* live question
C22_Witness ==
    /\ Answering("u1")
    /\ Len(session["u1"].answers) = 2
    /\ session["u1"].review_index = 1
    /\ navigation_run(session["u1"], "next").outcome = "back_to_live"

(* C23: with no recorded answer, review navigation in either direction
   changes nothing: review_index stays none and the session is as it was. *)
C23_NothingToReview ==
    \A u \in Users :
        (Answering(u) /\ session[u].answers = <<>>) =>
            \A direction \in {"prev", "next"} :
                LET run == navigation_run(session[u], direction)
                IN  /\ session[u].review_index = None
                    /\ run.outcome = "nothing_to_review"
                    /\ run.session = session[u]
                    /\ run.logged = <<>>
                    /\ run.status = <<>>
                    /\ ~run.cleared

\* no answer yet, but a draft on the live question
C23_Witness ==
    /\ Answering("u1")
    /\ session["u1"].answers = <<>>
    /\ DraftKeys(session["u1"]) # {}
    /\ navigation_run(session["u1"], "prev").outcome = "nothing_to_review"

\* the session after k navigation runs in one direction
RECURSIVE NavigateTimes(_, _, _)
NavigateTimes(s, direction, k) ==
    IF k = 0 THEN s
    ELSE NavigateTimes(navigation_run(s, direction).session, direction, k - 1)

(* C24: from the live question with n >= 1 recorded answers, n previous
   operations lead to the first answer and n + 1 next operations after them
   lead back to review_index = none, with answers and the rest of the
   session as they were. *)
C24_ReviewRoundTrip ==
    \A u \in Users :
        (Answering(u) /\ session[u].answers # <<>> /\ session[u].review_index = None) =>
            LET s == session[u]
                n == Len(s.answers)
                back == NavigateTimes(s, "prev", n)
                forth == NavigateTimes(back, "next", n + 1)
            IN  /\ back.review_index = 0
                /\ back.answers = s.answers
                /\ forth.review_index = None
                /\ forth.answers = s.answers
                /\ forth = s

\* the spec's case: three recorded answers, three previous, four next
C24_Witness ==
    /\ Answering("u1")
    /\ Len(session["u1"].answers) = 3
    /\ session["u1"].review_index = None
    /\ NavigateTimes(session["u1"], "prev", 3).review_index = 0
    /\ NavigateTimes(NavigateTimes(session["u1"], "prev", 3), "next", 4) = session["u1"]

\* the session of u has ended: the last advance() reported done
Done(u) == statuses[u] # <<>> /\ statuses[u][Len(statuses[u])] = "done"

\* the runs in which the user submits an answer to the live question
SubmitRuns(s) ==
    IF CurrentQuestionRaises(s) THEN {}
    ELSE LET id == current_question(s).id
             selected == IF id \in DOMAIN s.multi_choice_state
                         THEN s.multi_choice_state[id] ELSE {}
         IN  {single_choice_run(s, id, choice_id, TRUE) : choice_id \in ChoiceIds}
                \cup {multi_choice_run(s, "submit", id, "c1", order, TRUE) :
                        order \in Orders(selected)}
                \cup {matching_run(s, "submit", id, "1", TRUE)}

(* C25: once advance reports done the session is terminal: the run that
   finishes it builds the summary from the answers including the last one
   and discards the session, and from then on no interaction is accepted
   or changes the answers or the sink, until /start begins anew. *)
C25_DoneIsTerminal ==
    [][\A u \in Users :
        /\ Answering(u) =>
              \A run \in SubmitRuns(session[u]) :
                  run.status = <<"done">> =>
                      /\ run.cleared
                      /\ run.logged # <<>>
                      /\ run.summarized = Append(session[u].answers, run.logged[1])
                      /\ run.summarized = run.session.answers
        /\ Done(u)' => fsm'[u] = "none" /\ session'[u] = EmptySession
        /\ Done(u) =>
              \/ fsm'[u] = "waiting_full_name"
              \/ /\ Done(u)'
                 /\ sink'[u] = sink[u]
                 /\ statuses'[u] = statuses[u]
      ]_vars

\* the session ended after three answers, all of them in the sink
C25_Witness ==
    /\ Done("u1")
    /\ fsm["u1"] = "none"
    /\ Len(sink["u1"]) = 3

(* C26: whenever an operation can begin on a session, the sink holds the
   results of the session's answers, each once and in the order they were
   recorded: the sink's records are the answers list. *)
C26_SinkMatchesAnswers ==
    \A u \in Users :
        Answering(u) => sink[u] = session[u].answers

\* the prompts of the questions of a block, by position
Prompts(block) == [i \in DOMAIN block |-> block[i].prompt]

\* a block of the length asked for, from pairwise distinct blueprints of
\* the pool, every question with the block number
BlockFrom(block, pool, count, block_number) ==
    /\ Len(block) = Min(count, Len(pool))
    /\ Injective(Prompts(block))
    /\ \A i \in DOMAIN block :
        /\ block[i].prompt \in {pool[k].prompt : k \in DOMAIN pool}
        /\ block[i].block = block_number
    /\ pool = <<>> => block = <<>>

(* C27: build_blocks returns, for each of the two pools, a block of
   min(count, pool size) questions built from pairwise distinct blueprints
   of that pool, block one's questions numbered 1 and block two's numbered
   2; an empty pool gives an empty block. *)
C27_BuildBlocks ==
    blocks_call.state = "returned" =>
        /\ BlockFrom(blocks_call.block_one, blocks_call.common_questions,
                     blocks_call.block_one_count, 1)
        /\ BlockFrom(blocks_call.block_two, blocks_call.role_questions,
                     blocks_call.block_two_count, 2)

\* block one is the whole common pool in reverse (count above the pool
\* size), block two one blueprint of two
C27_Witness ==
    /\ blocks_call.state = "returned"
    /\ Len(blocks_call.common_questions) = 2
    /\ blocks_call.block_one_count = 3
    /\ Prompts(blocks_call.block_one) = <<"p2", "p1">>
    /\ Len(blocks_call.role_questions) = 2
    /\ Len(blocks_call.block_two) = 1

(* C28: the choices _materialize produces are a permutation of the
   blueprint's options: the same (text, is_correct) pairs, none added or
   dropped; their ids are c1, c2, ... by position after the shuffle, hence
   pairwise distinct; the blueprint's option list and meta are as the
   loader left them. *)
C28_ChoicesPermuteOptions ==
    materialized.state = "built" =>
        LET choices == materialized.question.choices
            options == materialized.options
        IN  /\ DOMAIN choices = DOMAIN options
            /\ \E perm \in Permutations(DOMAIN options) :
                \A i \in DOMAIN options :
                    /\ choices[i].text = options[perm[i]].text
                    /\ choices[i].is_correct = options[perm[i]].is_correct
            /\ \A i \in DOMAIN choices : choices[i].id = ChoiceIdAt(i)
            /\ \A i, j \in DOMAIN choices : choices[i].id = choices[j].id => i = j
            /\ \A i \in DOMAIN options : options[i].text = OptionText(i)
            /\ materialized.meta = BankMeta

\* three options shuffled into the order t3, t1, t2: the correct one is c2
C28_Witness ==
    /\ materialized.state = "built"
    /\ materialized.options = <<Option("t1", TRUE), Option("t2", FALSE), Option("t3", FALSE)>>
    /\ materialized.question.choices =
            <<TextChoice("c1", "t3", FALSE), TextChoice("c2", "t1", TRUE),
              TextChoice("c3", "t2", FALSE)>>

(* C29: a session exists, and the state is answering, only when role
   selection gave a non-empty block one and a non-empty block two; when
   either block is empty no session is created and the user stays in
   choosing_role. *)
C29_SessionNeedsBothBlocks ==
    \A u \in Users :
        /\ Answering(u) =>
              /\ session[u].block_one # <<>>
              /\ session[u].block_two # <<>>
        /\ fsm[u] = "choosing_role" =>
              /\ session[u] = EmptySession
              /\ \A n1 \in 0..MaxQuestions, n2 \in 0..MaxQuestions :
                    LET run == role_choice_run(Block(1, n1), Block(2, n2))
                    IN  /\ run.created <=> (n1 > 0 /\ n2 > 0)
                        /\ run.created =>
                              /\ run.state = "answering"
                              /\ run.session.block_one = Block(1, n1)
                              /\ run.session.block_two = Block(2, n2)
                        /\ ~run.created =>
                              /\ run.state = "choosing_role"
                              /\ run.session = EmptySession

\* a session just created from one common question and two of the role
C29_Witness ==
    /\ Answering("u1")
    /\ statuses["u1"] = <<>>
    /\ session["u1"] = role_choice_run(Block(1, 1), Block(2, 2)).session

\* the step changed something the bot holds for u
Changed(u) ==
    \/ session'[u] # session[u]
    \/ fsm'[u] # fsm[u]
    \/ sink'[u] # sink[u]
    \/ statuses'[u] # statuses[u]

(* C30: sessions of different users are independent: an operation of one
   user (submit, draft input, review, completion, restart) leaves the other
   user's session, FSM state, sink records and statuses as they were, in
   every interleaving of the two users' operations. *)
C30_UsersIndependent ==
    [][\A u \in Users, v \in Users :
        (u # v /\ Changed(u)) => ~Changed(v)]_vars

\* u1 has finished while u2 reviews its first answer with a draft pending
C30_Witness ==
    /\ Done("u1")
    /\ Answering("u2")
    /\ Len(session["u2"].answers) = 1
    /\ session["u2"].review_index = 0
    /\ DraftKeys(session["u2"]) # {}

\* the submit runs that end the session
FinishingRuns(s) == {run \in SubmitRuns(s) : run.status = <<"done">>}

\* listed is the sequence of the entries of answers that are not correct, in
\* the order of answers
ListsTheIncorrect(listed, answers) ==
    LET wrong == {i \in DOMAIN answers : ~answers[i].is_correct}
    IN  /\ Len(listed) = Cardinality(wrong)
        /\ \E at \in [DOMAIN listed -> wrong] :
            /\ \A i, j \in DOMAIN listed : i < j => at[i] < at[j]
            /\ \A i \in DOMAIN listed : listed[i] = answers[at[i]]

(* C31: build_summary gives the no-mistakes message if and only if no entry
   of answers has is_correct = false; otherwise it lists exactly the
   incorrect entries of answers, in answer order, followed by the distinct
   topics of those entries in ascending order. *)
C31_SummaryListsMistakes ==
    \A u \in Users :
        Answering(u) =>
            \A run \in FinishingRuns(session[u]) :
                LET answers == run.summarized
                    summary == build_summary(run.session)
                    wrong == {i \in DOMAIN answers : ~answers[i].is_correct}
                IN  /\ answers = run.session.answers
                    /\ summary.no_mistakes <=> wrong = {}
                    /\ summary.no_mistakes =>
                          summary.mistakes = <<>> /\ summary.topics = <<>>
                    /\ ListsTheIncorrect(summary.mistakes, answers)
                    /\ \A i, j \in DOMAIN summary.topics :
                          i < j => summary.topics[i] < summary.topics[j]
                    /\ Range(summary.topics) =
                          {TopicOf(answers[i].question) : i \in wrong}

\* the session ends with the first and the last of three answers wrong: two
\* mistakes listed, their topics 2 and 3; the correct answer's topic 1 is
\* not listed
C31_Witness ==
    /\ Answering("u1")
    /\ \E run \in FinishingRuns(session["u1"]) :
        /\ Len(run.summarized) = 3
        /\ ~run.summarized[1].is_correct
        /\ run.summarized[2].is_correct
        /\ TopicOf(run.summarized[2].question) = 1
        /\ build_summary(run.session).topics = <<2, 3>>
        /\ Len(build_summary(run.session).mistakes) = 2

\* the questions of the session in the order they are asked
AllQuestions(s) == s.block_one \o s.block_two

\* the number of questions before the live one
Position(s) ==
    IF s.current_block = 1 THEN s.current_index
    ELSE Len(s.block_one) + s.current_index

(* C32: in every state in which an operation can begin, len(answers) is
   current_index in block 1 and len(block_one) + current_index in block 2,
   and the i-th recorded answer is for the i-th question of block_one
   followed by block_two. *)
C32_PositionInvariant ==
    \A u \in Users :
        Answering(u) =>
            LET s == session[u]
            IN  /\ Len(s.answers) = Position(s)
                /\ Len(s.answers) <= total_questions(s)
                /\ \A i \in DOMAIN s.answers :
                    s.answers[i].question = AllQuestions(s)[i]

(* C33: whenever a handler of the answering state can start on a session,
   also while the report of that session is still being delivered and the
   session is not yet discarded, the live question exists: current_index <
   len(current block). *)
C33_LiveQuestionExists ==
    \A u \in Users :
        Answering(u) => session[u].current_index < Len(current_list(session[u]))

\* the runs of a second callback that submits an answer to question_id
SecondSubmitRuns(s, question_id) ==
    {single_choice_run(s, question_id, choice_id, TRUE) : choice_id \in ChoiceIds}
        \cup {multi_choice_run(s, "submit", question_id, "c1", <<"c1">>, TRUE),
              matching_run(s, "submit", question_id, "1", TRUE)}

(* C34: when a callback for the live question has been accepted (its
   handler appended, logged and advanced, and is suspended at a Telegram
   call), a second callback of the same user for the same question, handled
   meanwhile, is rejected as stale: it appends nothing, logs nothing and
   does not advance. *)
C34_SecondCallbackStale ==
    [][\A u \in Users :
        (Answering(u) /\ Len(statuses'[u]) = Len(statuses[u]) + 1) =>
            LET after == session'[u]
                answered == after.answers[Len(after.answers)].question
            IN  \A run \in SecondSubmitRuns(after, answered) :
                    /\ run.outcome = "stale"
                    /\ run.session = after
                    /\ run.logged = <<>>
                    /\ run.status = <<>>
      ]_vars

(* C35: after any sequence of advance() calls, is_completed is true if and
   only if some advance() call on the session has returned done, also when
   block two is empty and block one has just finished. *)
C35_CompletedIffDone ==
    \A u \in Users :
        is_completed(session[u]) <=> (\E i \in DOMAIN statuses[u] : statuses[u][i] = "done")

(* C36: in every reachable state review_index is none or an index with
   0 <= review_index < len(answers): resolve_display_question never finds a
   review_index to reset. *)
C36_ReviewIndexInRange ==
    \A u \in Users :
        \/ session[u].review_index = None
        \/ /\ 0 <= session[u].review_index
           /\ session[u].review_index < Len(session[u].answers)

\* the user reviews the last of two recorded answers, no draft pending
C36_Witness ==
    /\ Answering("u1")
    /\ Len(session["u1"].answers) = 2
    /\ session["u1"].review_index = Len(session["u1"].answers) - 1
    /\ DraftKeys(session["u1"]) = {}
    /\ resolve_display_question(session["u1"]).s = session["u1"]

(* ---------------- a user who keeps answering the live question ---------- *)
\* How many inputs the live question's keyboard still needs before a submit
\* is accepted: none for single choice, one toggle for an empty selection,
\* a select and an assign for every left item without a pair.
Rank(s) ==
    IF CurrentQuestionRaises(s) THEN 0
    ELSE LET question == current_question(s)
             unpaired == Range(question.matching_left)
                            \ DOMAIN MappingOf(s, question.id)
         IN  CASE question.type = multi_choice ->
                    IF SelectionOf(s, question.id) = {} THEN 1 ELSE 0
               [] question.type = matching ->
                    2 * Cardinality(unpaired)
                        - (IF FocusOf(s, question.id) \in unpaired THEN 1 ELSE 0)
               [] OTHER -> 0

MaxRank == 2 * Cardinality(LeftIds)

\* the user's next input towards an answer: at rank 0 a submit that is
\* accepted, otherwise an input on the live question that lowers the rank
Closer(u, k) ==
    /\ Answering(u)
    /\ Rank(session[u]) = k
    /\ IF k = 0
       THEN Len(statuses'[u]) = Len(statuses[u]) + 1
       ELSE /\ statuses'[u] = statuses[u]
            /\ fsm'[u] = "answering"
            /\ Rank(session'[u]) = k - 1

\* the draft inputs the live question's keyboard offers
DraftRuns(s) ==
    IF CurrentQuestionRaises(s) THEN {}
    ELSE LET id == current_question(s).id
         IN  {multi_choice_run(s, "toggle", id, choice_id, <<>>, TRUE) :
                    choice_id \in ChoiceIds}
                \cup {matching_run(s, "select", id, item_id, TRUE) : item_id \in LeftIds}
                \cup {matching_run(s, "assign", id, item_id, TRUE) : item_id \in RightIds}

\* the runs by which the user can make that next input
CloserRuns(s) ==
    IF Rank(s) = 0
    THEN {run \in SubmitRuns(s) : Len(run.status) = 1}
    ELSE {run \in DraftRuns(s) :
            /\ run.status = <<>>
            /\ ~run.cleared
            /\ Rank(run.session) = Rank(s) - 1}

\* Spec with a user who keeps answering: an input towards an answer that is
\* possible again and again is eventually made (strong fairness of
\* Closer(u, k), which is possible exactly in the answering states of rank k)
SpecLive ==
    Spec /\ \A k \in 0..MaxRank :
                \/ <>[]~(Answering("u1") /\ Rank(session["u1"]) = k)
                \/ []<><<Closer("u1", k)>>_vars

(* C37: every accepted submit lengthens answers by one and no operation on
   a session shortens it; done is reported by the (n1 + n2)-th accepted
   submit; and if the user keeps answering the live question, the session
   reaches done (unless the user starts over), whatever rejected submits,
   draft inputs and review navigations come in between. *)
C37_ProgressAndTermination ==
    /\ [](\A u \in Users : Answering(u) => CloserRuns(session[u]) # {})
    /\ [][\A u \in Users :
            /\ (Answering(u) /\ fsm'[u] = "answering") =>
                    Len(session'[u].answers) >= Len(session[u].answers)
            /\ (Answering(u) /\ Len(statuses'[u]) = Len(statuses[u]) + 1) =>
                    /\ Len(statuses'[u]) <= total_questions(session[u])
                    /\ Done(u)' <=> Len(statuses'[u]) = total_questions(session[u])
                    /\ fsm'[u] = "answering" =>
                            Len(session'[u].answers) = Len(session[u].answers) + 1
       ]_vars
    /\ Answering("u1") ~> (Done("u1") \/ fsm["u1"] = "waiting_full_name")

\* a matching question is live with one pair made, the user looking at the
\* first answer: three inputs and a submit are still to come
C37_Witness ==
    /\ Answering("u1")
    /\ session["u1"].review_index = 0
    /\ current_question(session["u1"]).type = matching
    /\ Rank(session["u1"]) = 2
    /\ faults["u1"] = 1

(* C38: a multi-choice submit on the live question with nothing selected is
   rejected: answers, the position and the review cursor stay as they were,
   nothing is written to the sink, no advance happens, the selection is
   still empty and the question is still the live one. *)
C38_EmptySubmitRejected ==
    \A u \in Users :
        Answering(u) =>
            LET s == session[u]
            IN  \A question_id \in LiveIds(s), sink_ok \in BOOLEAN :
                    SelectionOf(s, question_id) = {} =>
                        LET run == multi_choice_run(s, "submit", question_id, "c1",
                                                    <<>>, sink_ok)
                        IN  /\ run.outcome = "empty"
                            /\ NoProgress(s, run)
                            /\ SelectionOf(run.session, question_id) = {}
                            /\ ensure_active_question(run.session, question_id) = "ok"

\* the second question is a multi-choice one whose draft exists and is empty,
\* as an empty submit leaves it
C38_Witness ==
    /\ Answering("u1")
    /\ Len(session["u1"].answers) = 1
    /\ \E question_id \in LiveIds(session["u1"]) :
        /\ current_question(session["u1"]).type = multi_choice
        /\ question_id \in DOMAIN session["u1"].multi_choice_state
        /\ session["u1"].multi_choice_state[question_id] = {}
        /\ multi_choice_run(session["u1"], "submit", question_id, "c1", <<>>,
                            TRUE).outcome = "empty"

\* the left items that have a pair after the run and had none before
CreatedPairs(before, after, question_id) ==
    DOMAIN MappingOf(after, question_id) \ DOMAIN MappingOf(before, question_id)

(* C39: an assign on the live question while no left item is in focus is
   rejected and leaves the mapping, the focus, answers and the position as
   they were; a matching input gives a pair only to the left item in focus,
   only select puts a left item in focus, and no step of the bot gives a
   pair to any other left item. *)
C39_AssignNeedsFocus ==
    /\ [](\A u \in Users :
            Answering(u) =>
                LET s == session[u]
                IN  \A question_id \in LiveIds(s) :
                        /\ \A right \in RightIds :
                              FocusOf(s, question_id) = NoFocus =>
                                LET run == matching_run(s, "assign", question_id,
                                                        right, TRUE)
                                IN  /\ run.outcome = "no_focus"
                                    /\ NoProgress(s, run)
                                    /\ MappingOf(run.session, question_id) =
                                            MappingOf(s, question_id)
                                    /\ FocusOf(run.session, question_id) = NoFocus
                        /\ \A action \in {"select", "assign", "reset", "submit"},
                              item_id \in LeftIds \cup RightIds,
                              sink_ok \in BOOLEAN :
                                LET run == matching_run(s, action, question_id,
                                                        item_id, sink_ok)
                                IN  /\ \A left \in CreatedPairs(s, run.session, question_id) :
                                          /\ action = "assign"
                                          /\ left = FocusOf(s, question_id)
                                    /\ FocusOf(run.session, question_id)
                                            \notin {NoFocus, FocusOf(s, question_id)} =>
                                          /\ action = "select"
                                          /\ FocusOf(run.session, question_id) = item_id)
    /\ [][\A u \in Users :
            \A question_id \in DOMAIN session'[u].matching_state :
                \A left \in CreatedPairs(session[u], session'[u], question_id) :
                    /\ Answering(u)
                    /\ question_id \in LiveIds(session[u])
                    /\ left = FocusOf(session[u], question_id)
       ]_vars

\* the first left item has been selected and paired, which cleared the focus:
\* an assign now would be rejected
C39_Witness ==
    /\ Answering("u1")
    /\ \E question_id \in LiveIds(session["u1"]) :
        /\ current_question(session["u1"]).type = matching
        /\ DOMAIN MappingOf(session["u1"], question_id) = {"1"}
        /\ question_id \in DOMAIN session["u1"].matching_focus
        /\ FocusOf(session["u1"], question_id) = NoFocus
        /\ matching_run(session["u1"], "assign", question_id, "B", TRUE).outcome
                = "no_focus"

====
